---- MODULE Spec2Model ----
(***************************************************************************)
(* Object-lifecycle and resource-budget core of the physics sandbox:       *)
(*   - the useSimulation hook (the simulation state store),                *)
(*   - PerformanceOptimizer (admission ceilings, eviction candidates,      *)
(*     material / geometry caches, cleanup callbacks).                     *)
(*                                                                         *)
(* React state is modelled as the hook keeps it: a rendered value per      *)
(* useState cell (what the callbacks created by the last render close      *)
(* over) and the queue of updates issued since that render.  A handler     *)
(* reads the rendered values and enqueues updates; Render applies the      *)
(* queues in order and produces the next rendered values.                  *)
(***************************************************************************)
EXTENDS Integers, Sequences, FiniteSets, TLC

VARIABLES
    objects,              \* useState<SpawnedObject[]>: the rendered entity list
    pendingObjects,       \* setObjects(...) updates not yet rendered
    isRunning,            \* useState(true): rendered flag
    pendingRunning,       \* setIsRunning(...) updates not yet rendered
    resetKey,             \* useState(0): rendered key
    pendingResetKey,      \* number of setResetKey(prev => prev + 1) not yet rendered
    performanceWarnings,  \* useState<string[]>: rendered warnings
    pendingWarnings,      \* setPerformanceWarnings(...) updates not yet rendered
    timers,               \* resume timers started by removeAllObjects, oldest first
    now,                  \* Date.now()
    created,              \* number of entities created so far
    mounted,              \* whether the component that uses the hook is mounted
    calls,                \* number of hook / optimizer calls made so far
    lastOp,               \* the last call: its name, argument, returned ids, the call
                          \* before it, the rendered population it saw, and whether
                          \* an addObject call so far worked on a stale store
    materialCache,        \* MaterialCache.cache
    geometryCache,        \* GeometryCache.cache
    cleanupCallbacks,     \* PerformanceOptimizer.cleanupCallbacks
    allocated,            \* number of resources built by factories so far
    made,                 \* factory invocations per cache and key since the last disposeAll
    served,               \* resources returned per cache and key since the last disposeAll
    asked,                \* requests per cache and key since the last disposeAll
    cleanupRan,           \* callbacks run by the last performCleanup
    sgObjects,            \* suggestObjectsForRemoval: the array passed in (as it is now)
    sgInput,              \* the array as it was when passed in
    sgCount,              \* the count passed in
    sgResult,             \* the ids returned
    sgDone,               \* whether the call has been made
    caObjects,            \* canAddObject: the array passed in (as it is now)
    caInput,              \* the array as it was when passed in
    caType,               \* the type passed in
    caResult,             \* the boolean returned
    caDone,               \* whether the call has been made
    runnerIsRunning,      \* PerformanceTestRunner.isRunning
    currentTest,          \* PerformanceTestRunner.currentTest
    runnerResults,        \* PerformanceTestRunner.results
    runs,                 \* the runTest invocations: where each one stands
    glbLoader,            \* GLBLoader: isLoading as rendered, the setIsLoading updates
                          \* not yet rendered, error, whether the 1000 ms delay of a
                          \* load is running (loading), and the array `objects` the
                          \* onLoadGLB prop of the pending load closes over: the
                          \* rendered array (attached) or the one a render replaced
    pausedSpawns,         \* spawn callbacks fired by ControlPanel while isRunning
                          \* was false
    scheduled,            \* spawnQueue: let scheduled
    queue,                \* spawnQueue: let queue
    hasWindow,            \* typeof window !== 'undefined'
    rafs,                 \* requestAnimationFrame(flush) requests for the next frame
    frameRafs,            \* flush callbacks of the running frame not yet run
    timeouts,             \* setTimeout(flush, 0) timers not yet run
    frame,                \* number of animation frames begun so far
    flushes,              \* number of flush() calls so far
    ran,                  \* the callbacks run so far: in which frame and flush
    pushed,               \* the number of queue.push(cb) so far
    vpPosition,           \* the position prop handed to a physics component
    vpConfig,             \* the position of the rigid-body config made from it
    vpDone,               \* whether the component has validated its props
    csScene,              \* createCollisionShapeFromGLB: the mesh hierarchy
    csKind,               \* the collisionType asked for
    csScale,              \* the scale
    csResult,             \* the descriptor returned (or null)
    csDone,               \* whether the call has been made
    gmOutcome,            \* GLBModel: what shape derivation does (returns / throws)
    gmConfig,             \* the collisionData computed from it
    gmDone,               \* whether collisionData has been computed
    pfCall,               \* a call of a pure function: its name and arguments
    pfResult,             \* what the call returned
    pfDone,               \* whether the call has been made
    enError,              \* App.currentError as rendered: the error prop of
                          \* ErrorNotification
    enPendingError,       \* setCurrentError(...) updates not yet rendered
    enAutoHide,           \* the autoHide prop
    enVisible,            \* useState(false): isVisible as rendered
    enPendingVisible,     \* setIsVisible(...) updates not yet rendered
    enEffectFor,          \* the error prop the effect last ran with
    enAutoTimer,          \* the pending auto-hide timer: id of the error it was set
                          \* for (0: none)
    enAnimTimers,         \* the pending 300 ms timers, each with the id of the error
                          \* rendered when it was set (0: null)
    enDismissals,         \* per error id: onDismiss() calls made by those timers
    enShown               \* number of errors handed to the component so far

hookVars == <<objects, pendingObjects, isRunning, pendingRunning, resetKey,
              pendingResetKey, performanceWarnings, pendingWarnings, timers,
              now, created, mounted>>
cacheVars == <<materialCache, geometryCache, cleanupCallbacks, allocated,
               made, served, asked>>
suggestVars == <<sgObjects, sgInput, sgCount, sgResult, sgDone>>
admitVars == <<caObjects, caInput, caType, caResult, caDone>>
\* the state of the components the hook, the caches and
\* suggestObjectsForRemoval do not touch
runnerVars == <<runnerIsRunning, currentTest, runnerResults, runs>>
panelVars == <<glbLoader, pausedSpawns>>
queueVars == <<scheduled, queue, hasWindow, rafs, frameRafs, timeouts, frame,
               flushes, ran, pushed>>
positionVars == <<vpPosition, vpConfig, vpDone>>
shapeVars == <<csScene, csKind, csScale, csResult, csDone>>
modelVars == <<gmOutcome, gmConfig, gmDone>>
pureVars == <<pfCall, pfResult, pfDone>>
notifVars == <<enError, enPendingError, enAutoHide, enVisible, enPendingVisible,
               enEffectFor, enAutoTimer, enAnimTimers, enDismissals, enShown>>
extVars == <<admitVars, runnerVars, panelVars, queueVars, positionVars, shapeVars,
             modelVars, pureVars, notifVars>>
vars == <<hookVars, cacheVars, suggestVars, extVars, calls, lastOp, cleanupRan>>

(***************************************************************************)
(* Bounds of the model                                                     *)
(***************************************************************************)
MaxCalls == 3        \* calls explored from the initial state
MaxTime == 1         \* Date.now() ranges over 0..MaxTime
MaxRand == 2         \* Math.random() suffixes drawn from 1..MaxRand
MaxList == 3         \* longest list passed to suggestObjectsForRemoval
MaxStamp == 3        \* timestamps of those lists range over 1..MaxStamp
MaxRuns == 2         \* runTest invocations followed
MaxSpawns == 3       \* queueSpawn calls made from outside a flush
MaxFrames == 3       \* animation frames and direct flush() calls followed
MaxCoords == 4       \* longest array handed over as a position
MaxVerts == 5        \* small meshes have 0..MaxVerts vertices
MaxFloats == 15      \* longest vertex array of a descriptor handed to GLBModel
MaxPoints == 6       \* point clouds handed to simplifyVertices have 0..MaxPoints points
MaxCap == 4          \* maxVertices ranges over 1..MaxCap
MaxHullPoints == 5   \* vertex arrays handed to validateCollisionShape hold 0..MaxHullPoints points
MaxQueued == 2       \* SpecQueueLive: callers queue at most MaxQueued callbacks
MaxErrors == 3       \* errors handed to ErrorNotification
MaxRejected == 2     \* files rejected by the file input of ControlPanel
MaxTimers == 2       \* a button is clicked while fewer 300 ms timers have been set
MaxOver == 1         \* populations lie within MaxOver of 0 and of each ceiling


(***************************************************************************)
(* PERFORMANCE_LIMITS and ObjectType                                       *)
(***************************************************************************)
MAX_OBJECTS == 50
MAX_BALLS == 25
MAX_BOXES == 25
MAX_GLB_MODELS == 10
CLEANUP_THRESHOLD == 45
EvictionCount == 3

BALL == "ball"
BOX == "box"
GLB_MODEL == "glb"
ObjectTypeValues == {BALL, BOX, GLB_MODEL}

NullId == <<>>
NoObject == [id |-> NullId, type |-> "", timestamp |-> 0]

Min(a, b) == IF a < b THEN a ELSE b

\* String.prototype.toLowerCase on the type tags that occur
toLowerCase(s) ==
    CASE s = "BALL" -> "ball"
      [] s = "Ball" -> "ball"
      [] s = "BOX" -> "box"
      [] s = "Box" -> "box"
      [] s = "GLB" -> "glb"
      [] s = "GLB_MODEL" -> "glb_model"
      [] OTHER -> s

CountType(objs, normalizedType) ==
    Len(SelectSeq(objs, LAMBDA o : toLowerCase(o.type) = normalizedType))

(***************************************************************************)
(* PerformanceOptimizer.canAddObject                                       *)
(***************************************************************************)
\* canAddObject without the test of objects.length against MAX_OBJECTS
canAddObject_noTotal(objs, type) ==
    LET normalizedType == toLowerCase(type)
        typeCount == CountType(objs, normalizedType)
    IN  CASE normalizedType = "ball" -> typeCount < MAX_BALLS
          [] normalizedType = "box" -> typeCount < MAX_BOXES
          [] normalizedType \in {"glb", "glb_model"} -> typeCount < MAX_GLB_MODELS
          [] OTHER -> FALSE

\* canAddObject with the per-type comparisons written <= instead of <
canAddObject_inclusive(objs, type) ==
    IF Len(objs) >= MAX_OBJECTS THEN FALSE
    ELSE LET normalizedType == toLowerCase(type)
             typeCount == CountType(objs, normalizedType)
         IN  CASE normalizedType = "ball" -> typeCount <= MAX_BALLS
               [] normalizedType = "box" -> typeCount <= MAX_BOXES
               [] normalizedType \in {"glb", "glb_model"} -> typeCount <= MAX_GLB_MODELS
               [] OTHER -> FALSE

canAddObject(objs, type) ==
    IF Len(objs) >= MAX_OBJECTS THEN FALSE
    ELSE LET normalizedType == toLowerCase(type)
             typeCount == CountType(objs, normalizedType)
         IN  CASE normalizedType = "ball" -> typeCount < MAX_BALLS
               [] normalizedType = "box" -> typeCount < MAX_BOXES
               [] normalizedType \in {"glb", "glb_model"} -> typeCount < MAX_GLB_MODELS
               [] OTHER -> FALSE

(***************************************************************************)
(* PerformanceOptimizer.suggestObjectsForRemoval                           *)
(* Array.prototype.sort sorts the receiver in place and is stable, so the  *)
(* call has two effects: the ids it returns and the array it leaves.       *)
(***************************************************************************)
\* the comparator with its operands exchanged: newest first
compareTimestamp_newestFirst(a, b) == b.timestamp - a.timestamp

\* the comparator (a, b) => a.timestamp - b.timestamp
compareTimestamp(a, b) == a.timestamp - b.timestamp

\* Array.prototype.sort with that comparator: stable, so element i comes
\* before element j when it compares smaller, or compares equal and i < j.
\* rank[i] is the position element i is moved to.
SortByTimestamp(objs) ==
    LET n == Len(objs)
        rank == [i \in 1..n |->
                    1 + Cardinality({j \in 1..n :
                          \/ compareTimestamp(objs[j], objs[i]) < 0
                          \/ compareTimestamp(objs[j], objs[i]) = 0 /\ j < i})] \o <<>>
    IN  [p \in 1..n |-> objs[CHOOSE i \in 1..n : rank[i] = p]] \o <<>>

suggestObjectsForRemoval(objs, count) ==
    LET sorted == SortByTimestamp(objs)
        sliced == SubSeq(sorted, 1, Min(count, Len(sorted)))
    IN  [ids |-> [i \in 1..Len(sliced) |-> sliced[i].id],
         objects |-> sorted]

(***************************************************************************)
(* React: applying the queued updates of one useState cell at render       *)
(***************************************************************************)
\* one setObjects update: [...prev, obj] / prev.filter(o => !ids.includes(o.id)) / []
ApplyObjectUpdate(prev, u) ==
    CASE u.kind = "append" -> Append(prev, u.obj)
      [] u.kind = "filter" -> SelectSeq(prev, LAMBDA o : o.id \notin u.ids)
      [] u.kind = "set" -> <<>>

\* the queue applied in order, first update first.  An element (of prev, or
\* appended by update b) is in the result when no later update drops it.
ApplyObjectUpdates(prev, updates) ==
    LET n == Len(updates)
        droppers == {j \in 1..n : updates[j].kind # "append"}
        Dropped(o, b) ==
            \E j \in droppers :
                j > b /\ ApplyObjectUpdate(<<o>>, updates[j]) = <<>>
        kept == SelectSeq(prev, LAMBDA o : ~Dropped(o, 0))
        appends == SelectSeq([i \in 1..n |-> i],
                             LAMBDA i : /\ updates[i].kind = "append"
                                        /\ ~Dropped(updates[i].obj, i))
    IN  kept \o [i \in 1..Len(appends) |-> updates[appends[i]].obj]

\* one setIsRunning update: a value, or prev => !prev
ApplyRunningUpdate(prev, u) ==
    CASE u = "toggle" -> ~prev
      [] u = "true" -> TRUE
      [] u = "false" -> FALSE

RECURSIVE ApplyRunningUpdates(_, _)
ApplyRunningUpdates(prev, updates) ==
    IF updates = <<>> THEN prev
    ELSE ApplyRunningUpdates(ApplyRunningUpdate(prev, Head(updates)), Tail(updates))

\* one setPerformanceWarnings update
ApplyWarningUpdate(prev, u) ==
    CASE u.kind = "clear" -> <<>>
      [] u.kind = "expire" ->
            SelectSeq(prev, LAMBDA w : /\ w.kind # "Auto-cleanup"
                                       /\ w.kind # "limit reached")
      [] OTHER -> Append(SelectSeq(prev, LAMBDA w : w.kind # u.kind), u)

RECURSIVE ApplyWarningUpdates(_, _)
ApplyWarningUpdates(prev, updates) ==
    IF updates = <<>> THEN prev
    ELSE ApplyWarningUpdates(ApplyWarningUpdate(prev, Head(updates)), Tail(updates))

\* the entity list the next render will show
StoreAfterRender == ApplyObjectUpdates(objects, pendingObjects)
\* the flag the next render will show
RunningAfterRender == ApplyRunningUpdates(isRunning, pendingRunning)

(***************************************************************************)
(* useSimulation.addObject: one call, made at time t with random suffix r, *)
(* on the rendered list objs and the queues pend / warn.  Returns the      *)
(* array objs as the call leaves it, the queues, and the returned id.      *)
(***************************************************************************)
typeLimitOf(type) ==
    IF type = BALL THEN MAX_BALLS
    ELSE IF type = BOX THEN MAX_BOXES
    ELSE MAX_GLB_MODELS

\* admission with the auto-cleanup test objects.length > CLEANUP_THRESHOLD
admission_cleanupAbove(objs, type) ==
    LET valid == type \in ObjectTypeValues
        allowed == valid /\ canAddObject(objs, type)
        cleanup == allowed /\ Len(objs) > CLEANUP_THRESHOLD
        suggested == suggestObjectsForRemoval(objs, EvictionCount)
    IN  [valid |-> valid,
         allowed |-> allowed,
         cleanup |-> cleanup,
         toRemove |-> IF cleanup
                      THEN {suggested.ids[i] : i \in 1..Len(suggested.ids)}
                      ELSE {},
         objects |-> IF cleanup THEN suggested.objects ELSE objs]

\* lines 238-261: what the call decides from the rendered list, and the array
\* it leaves (suggestObjectsForRemoval sorts it)
admission(objs, type) ==
    LET valid == type \in ObjectTypeValues
        allowed == valid /\ canAddObject(objs, type)
        cleanup == allowed /\ Len(objs) >= CLEANUP_THRESHOLD
        suggested == suggestObjectsForRemoval(objs, EvictionCount)
    IN  [valid |-> valid,
         allowed |-> allowed,
         cleanup |-> cleanup,
         toRemove |-> IF cleanup
                      THEN {suggested.ids[i] : i \in 1..Len(suggested.ids)}
                      ELSE {},
         objects |-> IF cleanup THEN suggested.objects ELSE objs]

\* lines 239-342: the updates the call issues and the id it returns
issue(a, pend, warn, type, t, r) ==
    IF ~a.valid
    THEN [objects |-> a.objects, pending |-> pend, warnings |-> warn,
          result |-> NullId]
    ELSE IF ~a.allowed
    THEN [objects |-> a.objects, pending |-> pend,
          warnings |-> Append(warn, [kind |-> "limit reached", type |-> type,
                                     max |-> typeLimitOf(type)]),
          result |-> NullId]
    ELSE LET objectId == <<type, t, r>>
             newObject == [id |-> objectId, type |-> type, timestamp |-> t]
             pend1 == IF a.cleanup
                      THEN Append(pend, [kind |-> "filter", obj |-> NoObject,
                                         ids |-> a.toRemove])
                      ELSE pend
             warn1 == IF a.cleanup
                      THEN Append(warn, [kind |-> "Auto-cleanup", type |-> "",
                                         max |-> 0])
                      ELSE warn
         IN  [objects |-> a.objects,
              pending |-> Append(pend1, [kind |-> "append", obj |-> newObject,
                                         ids |-> {}]),
              warnings |-> warn1,
              result |-> newObject.id]

addObject(objs, pend, warn, type, t, r) ==
    issue(admission(objs, type), pend, warn, type, t, r)

\* k addObject(type) calls issued one after the other in the same tick, all
\* by callbacks of the same render; the i-th uses random suffix r + i - 1.
\* The first call runs on objs, every later one on the array the first left;
\* each call appends its updates to the queues.
addObjects(objs, pend, warn, type, t, r, k) ==
    LET a1 == admission(objs, type)
        a2 == admission(a1.objects, type)
        call(i) == issue(IF i = 1 THEN a1 ELSE a2, <<>>, <<>>, type, t, r + i - 1)
        m == Len(call(1).pending)
        w == Len(call(1).warnings)
    IN  [objects |-> a2.objects,
         pending |-> pend \o [j \in 1..(k * m) |->
                         call(((j - 1) \div m) + 1).pending[((j - 1) % m) + 1]],
         warnings |-> warn \o [j \in 1..(k * w) |->
                         call(((j - 1) \div w) + 1).warnings[((j - 1) % w) + 1]],
         results |-> [i \in 1..k |-> call(i).result]]

(***************************************************************************)
(* MaterialCache.getMaterial / GeometryCache.getGeometry: the Map is a     *)
(* function whose domain is the set of keys present.  `built` is what the  *)
(* factory passed to this call returns if it is invoked.                   *)
(***************************************************************************)
EmptyCache == [k \in {} |-> 0]

\* getMaterial without the has(key) test: the factory is invoked every time
getMaterial_alwaysBuild(cache, key, built) ==
    [cache |-> [k \in DOMAIN cache \cup {key} |->
                   IF k = key THEN built ELSE cache[k]],
     result |-> built, invoked |-> TRUE]

getMaterial(cache, key, built) ==
    IF key \notin DOMAIN cache
    THEN [cache |-> [k \in DOMAIN cache \cup {key} |->
                        IF k = key THEN built ELSE cache[k]],
          result |-> built, invoked |-> TRUE]
    ELSE [cache |-> cache, result |-> cache[key], invoked |-> FALSE]

getGeometry(cache, key, built) ==
    IF key \notin DOMAIN cache
    THEN [cache |-> [k \in DOMAIN cache \cup {key} |->
                        IF k = key THEN built ELSE cache[k]],
          result |-> built, invoked |-> TRUE]
    ELSE [cache |-> cache, result |-> cache[key], invoked |-> FALSE]

\* MaterialCache.getSize / GeometryCache.getSize, as getCacheStats reports them
getCacheStats ==
    [materials |-> Cardinality(DOMAIN materialCache),
     geometries |-> Cardinality(DOMAIN geometryCache),
     cleanupCallbacks |-> Cardinality(cleanupCallbacks)]

\* keys as createGeometryKey / createMaterialKey build them
CacheKeys == {"box-[1,1,1]", "sphere-[0.5,32,32]"}
CacheNames == {"material", "geometry"}
Callbacks == {"cbA", "cbB"}

(***************************************************************************)
(* Initial states                                                          *)
(***************************************************************************)
HookInit ==
    /\ objects = <<>>
    /\ pendingObjects = <<>>
    /\ isRunning = TRUE
    /\ pendingRunning = <<>>
    /\ resetKey = 0
    /\ pendingResetKey = 0
    /\ performanceWarnings = <<>>
    /\ pendingWarnings = <<>>
    /\ timers = <<>>
    /\ now = 0
    /\ created = 0
    /\ mounted = TRUE
    /\ calls = 0
    /\ lastOp = [op |-> "init", type |-> "", results |-> <<>>, prev |-> "",
                 before |-> 0, stale |-> FALSE]
    /\ cleanupRan = {}

CacheInit ==
    /\ materialCache = EmptyCache
    /\ geometryCache = EmptyCache
    /\ cleanupCallbacks = {}
    /\ allocated = 0
    /\ made = [c \in CacheNames |-> [k \in CacheKeys |-> 0]]
    /\ served = [c \in CacheNames |-> [k \in CacheKeys |-> {}]]
    /\ asked = [c \in CacheNames |-> [k \in CacheKeys |-> 0]]

SuggestIdle ==
    /\ sgObjects = <<>>
    /\ sgInput = <<>>
    /\ sgCount = 0
    /\ sgResult = <<>>
    /\ sgDone = FALSE

AdmitIdle ==
    /\ caObjects = <<>>
    /\ caInput = <<>>
    /\ caType = BALL
    /\ caResult = FALSE
    /\ caDone = FALSE

\* the runTest invocations the model follows, and the null config
Runs == 1..MaxRuns
NoTest == [maxObjects |-> 0, stepSize |-> 0, objectTypes |-> <<>>]

\* new PerformanceTestRunner(...): no runTest call made yet
RunnerInit ==
    /\ runnerIsRunning = FALSE
    /\ currentTest = NoTest
    /\ runnerResults = <<>>
    /\ runs = [i \in Runs |->
                 [pc |-> "new", config |-> NoTest, step |-> 0, adds |-> 0,
                  stopped |-> FALSE, addsAfterStop |-> 0, summary |-> <<>>,
                  error |-> ""]]

\* ControlPanel and GLBLoader as first rendered
PanelInit ==
    /\ glbLoader = [isLoading |-> FALSE, pendingLoading |-> <<>>, error |-> "none",
                    loading |-> FALSE, attached |-> FALSE, snapshot |-> <<>>]
    /\ pausedSpawns = {}

\* spawnQueue.ts as loaded
QueueLoaded ==
    /\ hasWindow \in BOOLEAN
    /\ scheduled = FALSE
    /\ queue = <<>>
    /\ rafs = 0
    /\ frameRafs = 0
    /\ timeouts = 0
    /\ frame = 0
    /\ flushes = 0
    /\ ran = <<>>
    /\ pushed = 0

\* ... in a browser
QueueInit == QueueLoaded /\ hasWindow

\* a JavaScript array of the given items, and null
JsArray(items) == [isArray |-> TRUE, truthy |-> TRUE, items |-> items]
JsNull == [isArray |-> FALSE, truthy |-> FALSE, items |-> <<>>]
\* a number value, written as its literal
Num(lit) == [typeof |-> "number", val |-> lit]

\* no physics component mounted
PositionIdle ==
    /\ vpPosition = JsNull
    /\ vpConfig = <<>>
    /\ vpDone = FALSE

\* a finite number, in thousandths, and the numbers that are not finite
Fin(milli) == [kind |-> "finite", milli |-> milli]
NaN == [kind |-> "NaN", milli |-> 0]
Infinity == [kind |-> "Infinity", milli |-> 0]

\* CollisionShapeData | null.  An absent field has defined = FALSE.
NoDimensions == [defined |-> FALSE, items |-> <<>>]
NoVertices == [defined |-> FALSE, items |-> <<>>]
NullShape == [shapeType |-> "null", dimensions |-> NoDimensions, vertices |-> NoVertices]
BoxShape(dims) ==
    [shapeType |-> "box", dimensions |-> [defined |-> TRUE, items |-> dims],
     vertices |-> NoVertices]
ConvexShape(coords) ==
    [shapeType |-> "convex", dimensions |-> NoDimensions,
     vertices |-> [defined |-> TRUE, items |-> coords]]

\* a mesh hierarchy: the number of vertices of its meshes and the edge of
\* its bounding box (thousandths)
EmptyScene == [vertexCount |-> 0, size |-> <<0, 0, 0>>, throws |-> FALSE]

\* no createCollisionShapeFromGLB call made
ShapeIdle ==
    /\ csScene = EmptyScene
    /\ csKind = "box"
    /\ csScale = <<1000, 1000, 1000>>
    /\ csResult = NullShape
    /\ csDone = FALSE

\* collisionData before it is computed
NoConfig == [shapeType |-> "none", halfExtents |-> <<>>]

\* no GLBModel rendered
ModelIdle ==
    /\ gmOutcome = [throws |-> FALSE, result |-> NullShape]
    /\ gmConfig = NoConfig
    /\ gmDone = FALSE

\* no pure function called
NoCall == [fn |-> "none"]
PureIdle ==
    /\ pfCall = NoCall
    /\ pfResult = <<>>
    /\ pfDone = FALSE

\* ErrorNotification mounted with error = null
NoError == [id |-> 0, type |-> "none"]

\* ErrorNotification mounted with error = null, its first effect run
NotifInit ==
    /\ enError = NoError
    /\ enPendingError = <<>>
    /\ enAutoHide \in BOOLEAN
    /\ enVisible = FALSE
    /\ enPendingVisible = <<>>
    /\ enEffectFor = NoError
    /\ enAutoTimer = 0
    /\ enAnimTimers = <<>>
    /\ enDismissals = [e \in 0..MaxErrors |-> 0]
    /\ enShown = 0

\* ... in the specifications that are about other components
NotifIdle == NotifInit /\ enAutoHide = FALSE

ExtIdle ==
    /\ AdmitIdle /\ RunnerInit /\ PanelInit /\ QueueInit /\ PositionIdle
    /\ ShapeIdle /\ ModelIdle /\ PureIdle /\ NotifIdle

Init == HookInit /\ CacheInit /\ SuggestIdle /\ ExtIdle

(***************************************************************************)
(* Hook operations                                                         *)
(***************************************************************************)
\* the record of a call; stale says that this addObject call, or an earlier
\* one, did not work on the store the operations before it left
Recorded(op, type, results, stale) ==
    /\ calls' = calls + 1
    /\ lastOp' = [op |-> op, type |-> type, results |-> results,
                  prev |-> lastOp.op, before |-> Len(objects),
                  stale |-> lastOp.stale \/ stale]

\* a call made by a callback of the last render: an addObject call is stale
\* when setObjects updates are queued or it is not the first of its tick
Called(op, type, results) ==
    Recorded(op, type, results,
             op = "addObject" /\ (pendingObjects # <<>> \/ Len(results) > 1))

\* one tick issuing k addObject(type) calls; r is the first random suffix
AddObjects(type, k, r) ==
    /\ calls < MaxCalls
    /\ LET out == addObjects(objects, pendingObjects, pendingWarnings,
                             type, now, r, k)
       IN  /\ objects' = out.objects
           /\ pendingObjects' = out.pending
           /\ pendingWarnings' = out.warnings
           /\ Called("addObject", type, out.results)
    /\ created' = created + k
    /\ UNCHANGED <<isRunning, pendingRunning, resetKey, pendingResetKey,
                   performanceWarnings, timers, now, cleanupRan>>
    /\ UNCHANGED <<mounted, cacheVars, suggestVars, extVars>>

\* useSimulation.removeObject
RemoveObject(id) ==
    /\ calls < MaxCalls
    /\ pendingObjects' = Append(pendingObjects,
                                [kind |-> "filter", obj |-> NoObject, ids |-> {id}])
    /\ Called("removeObject", "", <<id>>)
    /\ UNCHANGED <<objects, isRunning, pendingRunning, resetKey, pendingResetKey,
                   performanceWarnings, pendingWarnings, timers, now, created,
                   cleanupRan>>
    /\ UNCHANGED <<mounted, cacheVars, suggestVars, extVars>>

\* PerformanceOptimizer.performCleanup: every registered callback is run
performCleanup == cleanupCallbacks

\* useSimulation.removeAllObjects
RemoveAllObjects ==
    /\ calls < MaxCalls
    /\ pendingRunning' = Append(pendingRunning, "false")
    /\ pendingObjects' = Append(pendingObjects,
                                [kind |-> "set", obj |-> NoObject, ids |-> {}])
    /\ pendingWarnings' = Append(pendingWarnings,
                                 [kind |-> "clear", type |-> "", max |-> 0])
    /\ cleanupRan' = performCleanup
    /\ pendingResetKey' = pendingResetKey + 1
    /\ timers' = Append(timers, calls + 1)
    /\ Called("removeAllObjects", "", <<>>)
    /\ UNCHANGED <<objects, isRunning, resetKey, performanceWarnings, now, created>>
    /\ UNCHANGED <<mounted, cacheVars, suggestVars, extVars>>

\* useSimulation.toggleSimulation
ToggleSimulation ==
    /\ calls < MaxCalls
    /\ pendingRunning' = Append(pendingRunning, "toggle")
    /\ Called("toggleSimulation", "", <<>>)
    /\ UNCHANGED <<objects, pendingObjects, isRunning, resetKey, pendingResetKey,
                   performanceWarnings, pendingWarnings, timers, now, created,
                   cleanupRan>>
    /\ UNCHANGED <<mounted, cacheVars, suggestVars, extVars>>

\* useSimulation.clearPerformanceWarnings: setPerformanceWarnings([])
ClearPerformanceWarnings ==
    /\ calls < MaxCalls
    /\ pendingWarnings' = Append(pendingWarnings,
                                 [kind |-> "clear", type |-> "", max |-> 0])
    /\ Called("clearPerformanceWarnings", "", <<>>)
    /\ UNCHANGED <<objects, pendingObjects, isRunning, pendingRunning, resetKey,
                   pendingResetKey, performanceWarnings, timers, now, created,
                   cleanupRan>>
    /\ UNCHANGED <<mounted, cacheVars, suggestVars, extVars>>

\* the callback of the 5000 ms interval, which runs from mount to unmount:
\* the warnings of both kinds are filtered out
ExpireWarnings ==
    /\ mounted
    /\ calls < MaxCalls
    /\ pendingWarnings' = Append(pendingWarnings,
                                 [kind |-> "expire", type |-> "", max |-> 0])
    /\ Called("setInterval", "", <<>>)
    /\ UNCHANGED <<objects, pendingObjects, isRunning, pendingRunning, resetKey,
                   pendingResetKey, performanceWarnings, timers, now, created,
                   cleanupRan>>
    /\ UNCHANGED <<mounted, cacheVars, suggestVars, extVars>>

\* the component unmounts: the interval is cleared and the cleanup of the
\* last effect calls optimizer.performCleanup(); the queued updates are
\* never rendered
Unmount ==
    /\ mounted
    /\ mounted' = FALSE
    /\ cleanupRan' = performCleanup
    /\ UNCHANGED <<objects, pendingObjects, isRunning, pendingRunning, resetKey,
                   pendingResetKey, performanceWarnings, pendingWarnings, timers,
                   now, created, calls, lastOp>>
    /\ UNCHANGED <<cacheVars, suggestVars, extVars>>

\* a resume timer that flips the flag: setIsRunning(prev => !prev)
FireTimer_toggle ==
    /\ timers # <<>>
    /\ timers' = Tail(timers)
    /\ pendingRunning' = Append(pendingRunning, "toggle")
    /\ UNCHANGED <<objects, pendingObjects, isRunning, resetKey, pendingResetKey,
                   performanceWarnings, pendingWarnings, now, created,
                   calls, lastOp, cleanupRan>>
    /\ UNCHANGED <<mounted, cacheVars, suggestVars, extVars>>

\* the oldest resume timer expires: setIsRunning(true)
FireTimer ==
    /\ timers # <<>>
    /\ timers' = Tail(timers)
    /\ pendingRunning' = Append(pendingRunning, "true")
    /\ UNCHANGED <<objects, pendingObjects, isRunning, resetKey, pendingResetKey,
                   performanceWarnings, pendingWarnings, now, created,
                   calls, lastOp, cleanupRan>>
    /\ UNCHANGED <<mounted, cacheVars, suggestVars, extVars>>

\* React re-renders the hook: every queued update is applied, in order
RenderHook ==
    /\ mounted
    /\ \/ pendingObjects # <<>>
       \/ pendingRunning # <<>>
       \/ pendingResetKey # 0
       \/ pendingWarnings # <<>>
    /\ objects' = ApplyObjectUpdates(objects, pendingObjects)
    /\ isRunning' = ApplyRunningUpdates(isRunning, pendingRunning)
    /\ resetKey' = resetKey + pendingResetKey
    /\ performanceWarnings' = ApplyWarningUpdates(performanceWarnings, pendingWarnings)
    /\ pendingObjects' = <<>>
    /\ pendingRunning' = <<>>
    /\ pendingResetKey' = 0
    /\ pendingWarnings' = <<>>
    /\ UNCHANGED <<timers, now, created, mounted, calls, lastOp, cleanupRan>>

Render == RenderHook /\ UNCHANGED <<cacheVars, suggestVars, extVars>>

\* the clock advances by a millisecond
Tick ==
    /\ now < MaxTime
    /\ now' = now + 1
    /\ UNCHANGED <<objects, pendingObjects, isRunning, pendingRunning, resetKey,
                   pendingResetKey, performanceWarnings, pendingWarnings, timers,
                   created, calls, lastOp, cleanupRan>>
    /\ UNCHANGED <<mounted, cacheVars, suggestVars, extVars>>

\* ids removeObject is called with: the oldest rendered entity, and an id no
\* entity has
UnknownId == <<BALL, 0, 0>>
RemovableIds ==
    {UnknownId} \cup (IF objects = <<>> THEN {} ELSE {objects[1].id})

\* what one tick asks for: a type tag and the number of addObject calls
\* (one event handler, one act() block) issued before the hook re-renders
SpawnInputs ==
    {<<BALL, 1>>, <<BALL, 25>>, <<BOX, 1>>, <<BOX, 20>>,
     <<GLB_MODEL, 1>>, <<GLB_MODEL, 10>>, <<"cube", 1>>}

(***************************************************************************)
(* Optimizer operations                                                    *)
(***************************************************************************)
\* PerformanceOptimizer.getCachedMaterial
GetCachedMaterial(key) ==
    /\ calls < MaxCalls
    /\ LET out == getMaterial(materialCache, key, allocated + 1)
       IN  /\ materialCache' = out.cache
           /\ allocated' = IF out.invoked THEN allocated + 1 ELSE allocated
           /\ made' = [made EXCEPT !["material"][key] =
                           IF out.invoked THEN @ + 1 ELSE @]
           /\ served' = [served EXCEPT !["material"][key] = @ \cup {out.result}]
    /\ asked' = [asked EXCEPT !["material"][key] = @ + 1]
    /\ Called("getCachedMaterial", key, <<>>)
    /\ UNCHANGED <<geometryCache, cleanupCallbacks, cleanupRan>>
    /\ UNCHANGED <<hookVars, suggestVars, extVars>>

\* PerformanceOptimizer.getCachedGeometry
GetCachedGeometry(key) ==
    /\ calls < MaxCalls
    /\ LET out == getGeometry(geometryCache, key, allocated + 1)
       IN  /\ geometryCache' = out.cache
           /\ allocated' = IF out.invoked THEN allocated + 1 ELSE allocated
           /\ made' = [made EXCEPT !["geometry"][key] =
                           IF out.invoked THEN @ + 1 ELSE @]
           /\ served' = [served EXCEPT !["geometry"][key] = @ \cup {out.result}]
    /\ asked' = [asked EXCEPT !["geometry"][key] = @ + 1]
    /\ Called("getCachedGeometry", key, <<>>)
    /\ UNCHANGED <<materialCache, cleanupCallbacks, cleanupRan>>
    /\ UNCHANGED <<hookVars, suggestVars, extVars>>

\* PerformanceOptimizer.disposeAll
DisposeAll ==
    /\ calls < MaxCalls
    /\ materialCache' = EmptyCache
    /\ geometryCache' = EmptyCache
    /\ cleanupCallbacks' = {}
    /\ made' = [c \in CacheNames |-> [k \in CacheKeys |-> 0]]
    /\ served' = [c \in CacheNames |-> [k \in CacheKeys |-> {}]]
    /\ asked' = [c \in CacheNames |-> [k \in CacheKeys |-> 0]]
    /\ Called("disposeAll", "", <<>>)
    /\ UNCHANGED <<allocated, cleanupRan>>
    /\ UNCHANGED <<hookVars, suggestVars, extVars>>

\* PerformanceOptimizer.registerCleanupCallback
RegisterCleanupCallback(cb) ==
    /\ calls < MaxCalls
    /\ cleanupCallbacks' = cleanupCallbacks \cup {cb}
    /\ Called("registerCleanupCallback", cb, <<>>)
    /\ UNCHANGED <<materialCache, geometryCache, allocated, made, served, asked,
                   cleanupRan>>
    /\ UNCHANGED <<hookVars, suggestVars, extVars>>

\* PerformanceOptimizer.unregisterCleanupCallback
UnregisterCleanupCallback(cb) ==
    /\ calls < MaxCalls
    /\ cleanupCallbacks' = cleanupCallbacks \ {cb}
    /\ Called("unregisterCleanupCallback", cb, <<>>)
    /\ UNCHANGED <<materialCache, geometryCache, allocated, made, served, asked,
                   cleanupRan>>
    /\ UNCHANGED <<hookVars, suggestVars, extVars>>

\* one suggestObjectsForRemoval(sgObjects, sgCount) call
Suggest ==
    /\ ~sgDone
    /\ LET out == suggestObjectsForRemoval(sgObjects, sgCount)
       IN  /\ sgObjects' = out.objects
           /\ sgResult' = out.ids
    /\ sgDone' = TRUE
    /\ UNCHANGED <<sgInput, sgCount, calls, lastOp, cleanupRan>>
    /\ UNCHANGED <<hookVars, cacheVars, extVars>>

(***************************************************************************)
(* Spec: the hook driven by ticks that issue bursts of addObject calls;    *)
(* Math.random() never repeats a suffix (the suffix is a fresh number).    *)
(***************************************************************************)
Next ==
    \/ \E in \in SpawnInputs : AddObjects(in[1], in[2], created + 1)
    \/ \E id \in RemovableIds : RemoveObject(id)
    \/ RemoveAllObjects
    \/ ClearPerformanceWarnings
    \/ ExpireWarnings
    \/ Unmount
    \/ Render
    \/ Tick

Spec == Init /\ [][Next]_vars

(***************************************************************************)
(* SpecIds: single addObject calls whose random suffix is any value of     *)
(* 1..MaxRand, so Math.random() may return the same suffix twice.          *)
(***************************************************************************)
NextIds ==
    \/ \E type \in ObjectTypeValues : \E r \in 1..MaxRand : AddObjects(type, 1, r)
    \/ \E id \in RemovableIds : RemoveObject(id)
    \/ Render
    \/ Tick

SpecIds == Init /\ [][NextIds]_vars

(***************************************************************************)
(* SpecReset: reset, pause / resume and the resume timers.                 *)
(***************************************************************************)
NextReset ==
    \/ AddObjects(BALL, 1, created + 1)
    \/ RemoveAllObjects
    \/ ToggleSimulation
    \/ FireTimer
    \/ Render

SpecReset == Init /\ [][NextReset]_vars

\* ... with timers that expire and renders that happen
SpecResetLive == Init /\ [][NextReset]_vars /\ WF_vars(FireTimer) /\ WF_vars(Render)

(***************************************************************************)
(* SpecCache: the optimizer's caches and callbacks next to the hook.       *)
(***************************************************************************)
NextCache ==
    \/ \E key \in CacheKeys : GetCachedMaterial(key)
    \/ \E key \in CacheKeys : GetCachedGeometry(key)
    \/ DisposeAll
    \/ \E cb \in Callbacks : RegisterCleanupCallback(cb)
    \/ \E cb \in Callbacks : UnregisterCleanupCallback(cb)
    \/ AddObjects(BALL, 1, created + 1)
    \/ RemoveAllObjects
    \/ Render

SpecCache == Init /\ [][NextCache]_vars

(***************************************************************************)
(* SpecSuggest: suggestObjectsForRemoval applied to any list of at most    *)
(* MaxList entities with timestamps in 1..MaxStamp, and any count.         *)
(***************************************************************************)
SuggestLists ==
    UNION {[1..n -> 1..MaxStamp] : n \in 0..MaxList}

ListOf(stamps) ==
    [i \in 1..Len(stamps) |->
        [id |-> <<BALL, stamps[i], i>>, type |-> BALL, timestamp |-> stamps[i]]]

SuggestInit ==
    /\ HookInit
    /\ CacheInit
    /\ ExtIdle
    /\ \E stamps \in SuggestLists : sgInput = ListOf(stamps)
    /\ sgObjects = sgInput
    /\ sgCount \in 0..(MaxList + 1)
    /\ sgResult = <<>>
    /\ sgDone = FALSE

SpecSuggest == SuggestInit /\ [][Suggest]_vars

(***************************************************************************)
(* Claims about the store (Spec)                                           *)
(***************************************************************************)
\* C1: after every operation the store holds at most MAX_OBJECTS = 50
\* entities, also when several addObject calls are issued in the same tick.
C1_GlobalCeiling == Len(objects) <= MAX_OBJECTS

\* C2: after every operation the store holds at most 25 balls, 25 boxes and
\* 10 GLB models, also when several addObject calls of one type are issued
\* in the same tick.
C2_CategoryCeilings ==
    /\ CountType(objects, "ball") <= MAX_BALLS
    /\ CountType(objects, "box") <= MAX_BOXES
    /\ CountType(objects, "glb") <= MAX_GLB_MODELS

\* a step that is an addObject call (or a tick of several)
AddStep == calls' = calls + 1 /\ lastOp'.op = "addObject"
\* ... in which a call returned null
DeniedStep ==
    AddStep /\ \E i \in 1..Len(lastOp'.results) : lastOp'.results[i] = NullId

\* C3: admission is all-or-nothing.  Whenever addObject returns null, the
\* rendered list, the queued setObjects updates and hence the list the next
\* render shows are what they were before the call; and with 25 balls
\* rendered and nothing queued, addBall returns null and the size stays 25.
C3_DenialLeavesStore ==
    [][/\ DeniedStep =>
            /\ objects' = objects
            /\ pendingObjects' = pendingObjects
            /\ StoreAfterRender' = StoreAfterRender
       /\ ( /\ AddStep
            /\ lastOp'.type = BALL
            /\ CountType(objects, "ball") = MAX_BALLS
            /\ pendingObjects = <<>> ) =>
            /\ \A i \in 1..Len(lastOp'.results) : lastOp'.results[i] = NullId
            /\ Len(StoreAfterRender') = Len(objects)]_vars

\* C3 witness: the 26th addBall, made on 25 rendered balls, has returned null
C3_Witness ==
    /\ lastOp.op = "addObject"
    /\ lastOp.type = BALL
    /\ lastOp.results = <<NullId>>
    /\ lastOp.before = MAX_BALLS
    /\ CountType(objects, "ball") = MAX_BALLS
    /\ Len(objects) = MAX_BALLS
    /\ pendingObjects = <<>>

\* C7: the first addObject call after removeAllObjects is evaluated against
\* the empty store: it is admitted, queues no eviction, and the store then
\* holds exactly the new entity, rendered in between or not.
C7_SpawnAfterReset ==
    ( /\ lastOp.op = "addObject"
      /\ lastOp.prev = "removeAllObjects"
      /\ lastOp.type \in ObjectTypeValues
      /\ Len(lastOp.results) = 1 ) =>
        /\ lastOp.results[1] # NullId
        /\ \A j \in 1..Len(pendingObjects) :
              pendingObjects[j].kind = "filter" =>
                  \E i \in (j + 1)..Len(pendingObjects) : pendingObjects[i].kind = "set"
        /\ Len(StoreAfterRender) = 1
        /\ StoreAfterRender[1].id = lastOp.results[1]

(***************************************************************************)
(* Claims about the caches (SpecCache)                                     *)
(***************************************************************************)
\* C4: for every key, the getCachedMaterial (getCachedGeometry) calls made
\* with that key since the last disposeAll have invoked a factory exactly
\* once in total and have all returned the same resource, whatever calls
\* with other keys happened in between.
C4_FactoryOncePerKey ==
    \A c \in CacheNames : \A k \in CacheKeys :
        asked[c][k] >= 1 =>
            /\ made[c][k] = 1
            /\ Cardinality(served[c][k]) = 1

\* C4 witness: a key asked for twice, with the other key asked for as well
C4_Witness ==
    \E c \in CacheNames : \E k \in CacheKeys : \E other \in CacheKeys \ {k} :
        /\ asked[c][k] >= 2
        /\ asked[c][other] >= 1
        /\ made[c][k] = 1
        /\ lastOp.type = k

\* C5: a reset of a non-empty store while the caches hold entries leaves the
\* store with 0 entities and getCacheStats() at materials = 0, geometries = 0.
C5_ResetEmptiesCaches ==
    ( /\ lastOp.op = "removeAllObjects"
      /\ lastOp.before > 0 ) =>
        /\ Len(StoreAfterRender) = 0
        /\ getCacheStats.materials = 0
        /\ getCacheStats.geometries = 0

(***************************************************************************)
(* Claims about reset and pause (SpecReset)                                *)
(***************************************************************************)
\* C6: while a resume timer started by removeAllObjects has not fired, the
\* simulation is suspended: isRunning is false in every render made in that
\* window, whatever toggleSimulation / removeAllObjects calls and timer
\* expirations are interleaved.
C6_SuspendedDuringGrace ==
    (timers # <<>> /\ pendingRunning = <<>>) => isRunning = FALSE

(***************************************************************************)
(* Claims about suggestObjectsForRemoval (SpecSuggest)                     *)
(***************************************************************************)
\* C8: suggestObjectsForRemoval does not mutate its input: after the call
\* the array holds the same entities in the same order as before.
C8_InputUnchanged == sgDone => sgObjects = sgInput

\* the index in sgInput of the entity with the given id (ids are distinct)
InputIndex(id) == CHOOSE i \in 1..Len(sgInput) : sgInput[i].id = id
\* entity i is evicted before entity j: older, or as old and inserted earlier
Before(i, j) ==
    \/ sgInput[i].timestamp < sgInput[j].timestamp
    \/ sgInput[i].timestamp = sgInput[j].timestamp /\ i < j

\* C9: for a list of length n and a count >= 0 the call returns exactly
\* min(count, n) ids, those of the entities with the smallest timestamps, in
\* ascending timestamp order, equal timestamps in insertion order; on an
\* empty list it returns the empty list.
C9_OldestFirst ==
    sgDone =>
        LET n == Len(sgInput)
            m == Len(sgResult)
            chosen == {InputIndex(sgResult[a]) : a \in 1..m}
        IN  /\ m = Min(sgCount, n)
            /\ \A a \in 1..m : \E i \in 1..n : sgInput[i].id = sgResult[a]
            /\ \A a \in 1..m : \A b \in (a + 1)..m :
                   Before(InputIndex(sgResult[a]), InputIndex(sgResult[b]))
            /\ \A i \in chosen : \A j \in (1..n) \ chosen : Before(i, j)
            /\ n = 0 => sgResult = <<>>

\* C9 witness: a call on a list that is not in timestamp order and has two
\* entities of equal timestamp, with 0 < count < n
C9_Witness ==
    /\ sgDone
    /\ Len(sgInput) = 3
    /\ sgCount = 2
    /\ Len(sgResult) = 2
    /\ sgInput[1].timestamp > sgInput[2].timestamp
    /\ sgInput[2].timestamp = sgInput[3].timestamp

(***************************************************************************)
(* Claims about entity ids (SpecIds)                                       *)
(***************************************************************************)
\* C10: entity ids are unique: the ids in the store are pairwise distinct
\* in every reachable state, also for entities of one type created within
\* the same millisecond.
C10_IdsUnique ==
    \A i \in 1..Len(objects) : \A j \in 1..Len(objects) :
        i # j => objects[i].id # objects[j].id

\* C11: inserting an entity whose id is already in the store is rejected and
\* leaves the store unchanged: an id returned by the last addObject call
\* occurs at most once in the store the next render shows, i.e. no admitted
\* entity doubles an id that was already there.
C11_DuplicateRejected ==
    lastOp.op = "addObject" =>
        \A a \in 1..Len(lastOp.results) :
            lastOp.results[a] # NullId =>
                Cardinality({j \in 1..Len(StoreAfterRender) :
                    StoreAfterRender[j].id = lastOp.results[a]}) <= 1

(***************************************************************************)
(* SpecAdmit: canAddObject applied to lists whose populations lie around   *)
(* zero and around the ceilings, and to every ObjectType value.            *)
(***************************************************************************)
\* populations within MaxOver of 0 and of the ceiling
CountsNear(limit) ==
    (0..MaxOver) \cup {n \in (limit - MaxOver)..(limit + MaxOver) : n >= 0}

\* a list of nb balls, then nx boxes, then ng GLB models
Population(nb, nx, ng) ==
    [i \in 1..(nb + nx + ng) |->
        LET t == IF i <= nb THEN BALL ELSE IF i <= nb + nx THEN BOX ELSE GLB_MODEL
        IN  [id |-> <<t, i, i>>, type |-> t, timestamp |-> i]]

AdmitInit ==
    /\ HookInit
    /\ CacheInit
    /\ SuggestIdle
    /\ \E nb \in CountsNear(MAX_BALLS) : \E nx \in CountsNear(MAX_BOXES) :
       \E ng \in CountsNear(MAX_GLB_MODELS) : caInput = Population(nb, nx, ng)
    /\ caObjects = caInput
    /\ caType \in ObjectTypeValues
    /\ caResult = FALSE
    /\ caDone = FALSE
    /\ RunnerInit
    /\ PanelInit
    /\ QueueInit
    /\ PositionIdle
    /\ ShapeIdle
    /\ ModelIdle
    /\ PureIdle
    /\ NotifIdle

\* one optimizer.canAddObject(caObjects, caType) call
CanAddObject ==
    /\ ~caDone
    /\ caResult' = canAddObject(caObjects, caType)
    /\ caDone' = TRUE
    /\ UNCHANGED <<caObjects, caInput, caType, runnerVars, panelVars, queueVars,
                   positionVars, shapeVars, modelVars, pureVars, notifVars>>
    /\ UNCHANGED <<hookVars, cacheVars, suggestVars, calls, lastOp, cleanupRan>>

SpecAdmit == AdmitInit /\ [][CanAddObject]_vars

(***************************************************************************)
(* PerformanceTestRunner                                                   *)
(* runTest is an async function: it runs synchronously up to its first     *)
(* await, and is resumed when the timer of the pending wait(ms) fires.     *)
(* The runner's fields are shared by every invocation.                     *)
(***************************************************************************)
\* two-step configurations: one that stays at 10 objects or fewer, one
\* that goes beyond 10 objects in its first step
TestConfigs ==
    {[maxObjects |-> 10, stepSize |-> 5, objectTypes |-> <<BALL, BOX>>],
     [maxObjects |-> 30, stepSize |-> 15, objectTypes |-> <<BALL>>]}
\* what getCurrentMetrics() reports as fps
FpsValues == {60, 10}

\* Math.ceil(config.maxObjects / config.stepSize)
stepsOf(config) == (config.maxObjects + config.stepSize - 1) \div config.stepSize

\* the runner's fields and invocation i, as one value
RunnerState ==
    [isRunning |-> runnerIsRunning, currentTest |-> currentTest,
     results |-> runnerResults, runs |-> runs]

\* the end of runTest without the finally block
finish_noFinally(st, i) ==
    LET failed == st.currentTest = NoTest \/ Len(st.results) = 0
        run == st.runs[i]
    IN  [isRunning |-> st.isRunning,
         currentTest |-> st.currentTest,
         results |-> st.results,
         runs |-> [st.runs EXCEPT ![i] =
            IF failed
            THEN [run EXCEPT !.pc = "rejected", !.error = "No test data available"]
            ELSE [run EXCEPT !.pc = "resolved",
                             !.summary = <<[testConfig |-> st.currentTest,
                                            results |-> st.results]>>]]]

\* return this.generateSummary() inside try, then the finally block
finish(st, i) ==
    LET failed == st.currentTest = NoTest \/ Len(st.results) = 0
        run == st.runs[i]
    IN  [isRunning |-> FALSE,
         currentTest |-> NoTest,
         results |-> st.results,
         runs |-> [st.runs EXCEPT ![i] =
            IF failed
            THEN [run EXCEPT !.pc = "rejected", !.error = "No test data available"]
            ELSE [run EXCEPT !.pc = "resolved",
                             !.summary = <<[testConfig |-> st.currentTest,
                                            results |-> st.results]>>]]]

\* the head of the step loop and the body up to await this.wait(stabilizationTime)
loopTop(st, i) ==
    LET run == st.runs[i]
    IN  IF run.step < stepsOf(run.config) /\ st.isRunning
        THEN [st EXCEPT !.runs[i] =
                 [run EXCEPT !.pc = "stabilizing",
                             !.adds = run.adds + 1,
                             !.addsAfterStop =
                                 IF run.stopped THEN run.addsAfterStop + 1
                                 ELSE run.addsAfterStop]]
        ELSE finish(st, i)

\* the body after the stabilization wait: measure, record, maybe stop early
measure(st, i, fps) ==
    LET run == st.runs[i]
        objectCount == (run.step + 1) * run.config.stepSize
        objectType == run.config.objectTypes[(run.step % Len(run.config.objectTypes)) + 1]
        result == [objectCount |-> objectCount, fps |-> fps, testType |-> objectType]
        recorded == [st EXCEPT !.results = Append(st.results, result)]
    IN  IF fps < 15 /\ objectCount > 10
        THEN finish(recorded, i)
        ELSE loopTop([recorded EXCEPT !.runs[i].step = run.step + 1], i)

SetRunner(st) ==
    /\ runnerIsRunning' = st.isRunning
    /\ currentTest' = st.currentTest
    /\ runnerResults' = st.results
    /\ runs' = st.runs

InProgress(i) == runs[i].pc \in {"clearing", "stabilizing"}

\* runTest(config), invocation i
RunTest(i, config) ==
    /\ runs[i].pc = "new"
    /\ \A j \in Runs : j < i => runs[j].pc # "new"
    /\ IF runnerIsRunning
       THEN /\ runs' = [runs EXCEPT ![i].pc = "rejected",
                                    ![i].error = "Test is already running"]
            /\ UNCHANGED <<runnerIsRunning, currentTest, runnerResults>>
       ELSE /\ runnerIsRunning' = TRUE
            /\ currentTest' = config
            /\ runnerResults' = <<>>
            /\ runs' = [runs EXCEPT ![i].pc = "clearing", ![i].config = config]
    /\ UNCHANGED <<hookVars, cacheVars, suggestVars, admitVars, panelVars,
                   queueVars, positionVars, shapeVars, modelVars, pureVars, notifVars, calls, lastOp, cleanupRan>>

\* the timer of invocation i's pending wait fires and runTest goes on
ResumeTest(i, fps) ==
    /\ InProgress(i)
    /\ IF runs[i].pc = "clearing"
       THEN SetRunner(loopTop(RunnerState, i))
       ELSE SetRunner(measure(RunnerState, i, fps))
    /\ UNCHANGED <<hookVars, cacheVars, suggestVars, admitVars, panelVars,
                   queueVars, positionVars, shapeVars, modelVars, pureVars, notifVars, calls, lastOp, cleanupRan>>

\* stopTest(); the invocations in progress are marked as stopped
StopTest ==
    /\ runnerIsRunning' = FALSE
    /\ runs' = [i \in Runs |->
                   IF InProgress(i) THEN [runs[i] EXCEPT !.stopped = TRUE]
                   ELSE runs[i]]
    /\ UNCHANGED <<currentTest, runnerResults>>
    /\ UNCHANGED <<hookVars, cacheVars, suggestVars, admitVars, panelVars,
                   queueVars, positionVars, shapeVars, modelVars, pureVars, notifVars, calls, lastOp, cleanupRan>>

NextRunner ==
    \/ \E i \in Runs : \E config \in TestConfigs : RunTest(i, config)
    \/ \E i \in Runs : \E fps \in FpsValues : ResumeTest(i, fps)
    \/ StopTest

SpecRunner == Init /\ [][NextRunner]_vars

\* C12: canAddObject(objects, type) returns false exactly when
\* objects.length >= 50 or the number of entities of that type has reached
\* the ceiling of the type (ball 25, box 25, GLB 10), and true otherwise; the
\* call changes neither the list nor the optimizer's caches and callbacks.
C12_AdmissionExact ==
    caDone =>
        /\ caResult = ~( \/ Len(caInput) >= 50
                         \/ Cardinality({i \in 1..Len(caInput) :
                                caInput[i].type = caType})
                              >= (CASE caType = BALL -> 25
                                    [] caType = BOX -> 25
                                    [] caType = GLB_MODEL -> 10) )
        /\ caObjects = caInput
        /\ materialCache = EmptyCache
        /\ geometryCache = EmptyCache
        /\ cleanupCallbacks = {}

\* C12 witness: a list of 50 entities, none of the requested type, is refused
C12_Witness ==
    /\ caDone
    /\ Len(caInput) = 50
    /\ \A i \in 1..Len(caInput) : caInput[i].type # caType
    /\ caResult = FALSE

(***************************************************************************)
(* ErrorNotification: the error prop, isVisible, the auto-hide timer and   *)
(* the 300 ms timers of handleDismiss.  The parent is App: onDismiss sets  *)
(* the error to null, a failure sets a new error.                          *)
(***************************************************************************)
NotifOthers ==
    UNCHANGED <<hookVars, cacheVars, suggestVars, admitVars, runnerVars, panelVars,
                queueVars, positionVars, shapeVars, modelVars, pureVars,
                calls, lastOp, cleanupRan>>

\* a useState cell whose queued updates are plain values: the last one wins
LastValue(prev, updates) ==
    IF updates = <<>> THEN prev ELSE updates[Len(updates)]

\* handleDismiss: setIsVisible(false); setTimeout(() => onDismiss(), 300)
handleDismiss ==
    /\ enPendingVisible' = Append(enPendingVisible, FALSE)
    /\ enAnimTimers' = Append(enAnimTimers, enError.id)

\* App.handleError: setCurrentError(error), with a new SimulationError
handleError(type) ==
    /\ enShown' = enShown + 1
    /\ enPendingError' = Append(enPendingError, [id |-> enShown + 1, type |-> type])
    /\ UNCHANGED <<enError, enAutoHide, enVisible, enPendingVisible, enEffectFor,
                   enAutoTimer, enAnimTimers, enDismissals>>

\* the parent is handed a new error
ShowError(type) ==
    /\ enShown < MaxErrors
    /\ handleError(type)
    /\ NotifOthers

\* React renders App and ErrorNotification: the queued updates of
\* currentError and isVisible are applied.  The passive effects of the
\* previous commit are run before a render starts.
NotifRender ==
    /\ enPendingError # <<>> \/ enPendingVisible # <<>>
    /\ enEffectFor = enError
    /\ enError' = LastValue(enError, enPendingError)
    /\ enVisible' = LastValue(enVisible, enPendingVisible)
    /\ enPendingError' = <<>>
    /\ enPendingVisible' = <<>>
    /\ UNCHANGED <<enAutoHide, enEffectFor, enAutoTimer, enAnimTimers, enDismissals,
                   enShown>>
    /\ NotifOthers

\* the passive effect of a commit that changed the error prop: the cleanup
\* of the previous run clears its auto-hide timer, then the body runs
RunEffects ==
    /\ enEffectFor # enError
    /\ enEffectFor' = enError
    /\ enPendingVisible' = Append(enPendingVisible, enError # NoError)
    /\ enAutoTimer' = IF enError # NoError /\ enAutoHide THEN enError.id ELSE 0
    /\ UNCHANGED <<enError, enPendingError, enAutoHide, enVisible, enAnimTimers,
                   enDismissals, enShown>>
    /\ NotifOthers

\* the number of 300 ms timers set so far: those pending and those expired
RECURSIVE SumTo(_, _)
SumTo(f, n) == IF n < 0 THEN 0 ELSE f[n] + SumTo(f, n - 1)
TimersSet == Len(enAnimTimers) + SumTo(enDismissals, MaxErrors)

\* a click on the close button or on the Dismiss button; they are rendered
\* only while error is set and isVisible is true
ClickDismiss(button) ==
    /\ enError # NoError
    /\ enVisible
    /\ TimersSet < MaxTimers
    /\ handleDismiss
    /\ UNCHANGED <<enError, enPendingError, enAutoHide, enVisible, enEffectFor,
                   enAutoTimer, enDismissals, enShown>>
    /\ NotifOthers

\* the auto-hide timer expires: handleDismiss()
AutoHideFires ==
    /\ enAutoTimer # 0
    /\ enAutoTimer' = 0
    /\ handleDismiss
    /\ UNCHANGED <<enError, enPendingError, enAutoHide, enVisible, enEffectFor,
                   enDismissals, enShown>>
    /\ NotifOthers

\* the oldest 300 ms timer expires: onDismiss(), which is
\* App.handleDismissError: setCurrentError(null)
AnimationDone ==
    /\ enAnimTimers # <<>>
    /\ enAnimTimers' = Tail(enAnimTimers)
    /\ enDismissals' = [enDismissals EXCEPT ![Head(enAnimTimers)] = @ + 1]
    /\ enPendingError' = Append(enPendingError, NoError)
    /\ UNCHANGED <<enError, enAutoHide, enVisible, enPendingVisible, enEffectFor,
                   enAutoTimer, enShown>>
    /\ NotifOthers

ErrorTypes == {"GLB_INVALID_FORMAT", "GLB_TOO_LARGE"}
NotifButtons == {"close", "dismiss"}

NextNotification ==
    \/ \E type \in ErrorTypes : ShowError(type)
    \/ NotifRender
    \/ RunEffects
    \/ \E button \in NotifButtons : ClickDismiss(button)
    \/ AutoHideFires
    \/ AnimationDone

NotificationInit ==
    /\ HookInit /\ CacheInit /\ SuggestIdle
    /\ AdmitIdle /\ RunnerInit /\ PanelInit /\ QueueInit /\ PositionIdle
    /\ ShapeIdle /\ ModelIdle /\ PureIdle
    /\ NotifInit

SpecNotification == NotificationInit /\ [][NextNotification]_vars

(***************************************************************************)
(* ControlPanel and GLBLoader over the hook (App.tsx).  A handler or a     *)
(* timer callback runs on the tree as last rendered, whatever updates are  *)
(* queued; the controls are enabled or disabled as last rendered.          *)
(***************************************************************************)
\* the canAddBall / canAddBox / canAddGLB values the hook returns
canAdd(type) == canAddObject(objects, type)

\* click on Add Ball: disabled = !isRunning || !canAddBall
ClickAddBall ==
    /\ isRunning /\ canAdd(BALL)
    /\ AddObjects(BALL, 1, created + 1)

\* click on Add Square: disabled = !isRunning || !canAddBox
ClickAddBox ==
    /\ isRunning /\ canAdd(BOX)
    /\ AddObjects(BOX, 1, created + 1)

\* click on Pause / Play
ClickToggle == ToggleSimulation

\* click on Reset
ClickReset == RemoveAllObjects

\* the resume timer of a reset fires
PanelFireTimer == FireTimer

\* the files offered to the file input: extension and size in bytes
MaxFileSize == 50 * 1024 * 1024
GLBFiles ==
    {[extension |-> ".glb", size |-> 1000],
     [extension |-> ".txt", size |-> 1000],
     [extension |-> ".glb", size |-> 60 * 1024 * 1024]}

\* errorHandling.validateGLBFile: the type of the error returned ("none": null)
validateGLBFile(file) ==
    IF file.extension # ".glb" /\ file.extension # ".gltf"
    THEN "GLB_INVALID_FORMAT"
    ELSE IF file.size > MaxFileSize
    THEN "GLB_TOO_LARGE"
    ELSE "none"

\* the array the addObject closure of the pending load works on: the array
\* `objects` of the render in which the file was chosen, which is the
\* rendered array until a render replaces it
LoadObjects == IF glbLoader.attached THEN objects ELSE glbLoader.snapshot

\* GLBLoader.handleFileChange up to its await: a file is chosen in the file
\* input, which is rendered disabled when disabled || isLoading.  The change
\* event is a discrete event, whose setError / setIsLoading(true) are
\* rendered before the next event or timer.  A file that validateGLBFile
\* rejects sets the error and is reported through onError, which is
\* App.handleError.
SelectGLBFile(file) ==
    /\ isRunning /\ canAdd(GLB_MODEL)
    /\ ~glbLoader.isLoading
    /\ LET validationError == validateGLBFile(file)
       IN  IF validationError # "none"
           THEN /\ enShown < MaxRejected
                /\ glbLoader' = [glbLoader EXCEPT !.error = validationError]
                /\ handleError(validationError)
           ELSE /\ glbLoader' = [glbLoader EXCEPT !.isLoading = TRUE,
                                                  !.error = "none",
                                                  !.loading = TRUE,
                                                  !.attached = TRUE,
                                                  !.snapshot = <<>>]
                /\ UNCHANGED notifVars
    /\ UNCHANGED <<pausedSpawns, admitVars, runnerVars, queueVars, positionVars, shapeVars, modelVars, pureVars>>
    /\ UNCHANGED <<hookVars, cacheVars, suggestVars, calls, lastOp, cleanupRan>>

\* handleFileChange after its 1000 ms delay: onLoadGLB(url, file,
\* collisionType) -> handleLoadGLB -> addGLBWithCollisionType -> addObject,
\* all of them the closures of the render in which the file was chosen;
\* then setIsLoading(false), which is rendered later
GLBLoaded ==
    /\ glbLoader.loading
    /\ calls < MaxCalls
    /\ LET out == addObject(LoadObjects, pendingObjects, pendingWarnings,
                            GLB_MODEL, now, created + 1)
       IN  /\ objects' = IF glbLoader.attached THEN out.objects ELSE objects
           /\ pendingObjects' = out.pending
           /\ pendingWarnings' = out.warnings
           /\ Recorded("addObject", GLB_MODEL, <<out.result>>,
                       pendingObjects # <<>> \/ ~glbLoader.attached)
    /\ created' = created + 1
    /\ pausedSpawns' = IF isRunning THEN pausedSpawns
                       ELSE pausedSpawns \cup {"onLoadGLB"}
    /\ glbLoader' = [glbLoader EXCEPT
                         !.pendingLoading = Append(@, FALSE),
                         !.loading = FALSE,
                         !.attached = FALSE,
                         !.snapshot = <<>>]
    /\ UNCHANGED <<isRunning, pendingRunning, resetKey, pendingResetKey,
                   performanceWarnings, timers, now, mounted, cleanupRan>>
    /\ UNCHANGED <<cacheVars, suggestVars, admitVars, runnerVars, queueVars,
                   positionVars, shapeVars, modelVars, pureVars, notifVars>>

\* React re-renders App with the hook and GLBLoader: the queued
\* setIsLoading updates are applied; a render that applies setObjects
\* updates makes a new array, and the closure of a pending load keeps the
\* old one
PanelRender ==
    /\ RenderHook
    /\ LET detach == /\ glbLoader.loading
                     /\ glbLoader.attached
                     /\ pendingObjects # <<>>
       IN  glbLoader' = [glbLoader EXCEPT
                            !.isLoading = LastValue(@, glbLoader.pendingLoading),
                            !.pendingLoading = <<>>,
                            !.attached = IF detach THEN FALSE ELSE @,
                            !.snapshot = IF detach THEN objects ELSE @]
    /\ UNCHANGED <<pausedSpawns, admitVars, runnerVars, queueVars, positionVars,
                   shapeVars, modelVars, pureVars, notifVars>>
    /\ UNCHANGED <<cacheVars, suggestVars>>

NextPanel ==
    \/ ClickAddBall
    \/ ClickAddBox
    \/ ClickToggle
    \/ ClickReset
    \/ PanelFireTimer
    \/ \E file \in GLBFiles : SelectGLBFile(file)
    \/ GLBLoaded
    \/ PanelRender
    \/ NotifRender
    \/ RunEffects
    \/ \E button \in NotifButtons : ClickDismiss(button)
    \/ AnimationDone

SpecPanel == Init /\ [][NextPanel]_vars

(***************************************************************************)
(* spawnQueue.ts                                                           *)
(* An animation frame runs, one by one, the requestAnimationFrame          *)
(* callbacks that were requested before it began; a request made while it  *)
(* runs is for the next frame.  Between two callbacks of a frame other     *)
(* frame callbacks run, which may call queueSpawn or flush.  Without a     *)
(* window, flush is requested by setTimeout(flush, 0).  flush is exported  *)
(* and can also be called directly.                                        *)
(***************************************************************************)
\* the callbacks queued: one that returns, one that calls queueSpawn again,
\* one that throws
SpawnCallbacks == {"spawn", "requeue", "throw"}

QueueState ==
    [scheduled |-> scheduled, queue |-> queue, hasWindow |-> hasWindow,
     rafs |-> rafs, timeouts |-> timeouts,
     flushes |-> flushes, ran |-> ran, pushed |-> pushed]

\* queueSpawn(cb); f is the frame whose flush is running, 0 outside a frame's
\* flush
queueSpawn(st, cb, f) ==
    LET added == [st EXCEPT !.queue = Append(st.queue, [cb |-> cb, queuedIn |-> f,
                                                        seq |-> st.pushed + 1]),
                            !.pushed = st.pushed + 1]
    IN  IF ~added.scheduled
        THEN IF added.hasWindow
             THEN [added EXCEPT !.scheduled = TRUE, !.rafs = added.rafs + 1]
             ELSE [added EXCEPT !.scheduled = TRUE, !.timeouts = added.timeouts + 1]
        ELSE added

\* the loop of flush from entry i of toRun on; a callback that throws is
\* caught and the loop goes on
\* the loop of flush without the try/catch: a callback that throws ends it
RECURSIVE runCallbacks_uncaught(_, _, _, _)
runCallbacks_uncaught(st, toRun, i, f) ==
    IF i > Len(toRun) THEN st
    ELSE LET e == toRun[i]
             logged == [st EXCEPT !.ran = Append(st.ran,
                            [cb |-> e.cb, queuedIn |-> e.queuedIn, seq |-> e.seq,
                             frame |-> f, flush |-> st.flushes])]
             after == IF e.cb = "requeue" THEN queueSpawn(logged, "spawn", f)
                      ELSE logged
         IN  IF e.cb = "throw" THEN after
             ELSE runCallbacks_uncaught(after, toRun, i + 1, f)

RECURSIVE runCallbacks(_, _, _, _)
runCallbacks(st, toRun, i, f) ==
    IF i > Len(toRun) THEN st
    ELSE LET e == toRun[i]
             logged == [st EXCEPT !.ran = Append(st.ran,
                            [cb |-> e.cb, queuedIn |-> e.queuedIn, seq |-> e.seq,
                             frame |-> f, flush |-> st.flushes])]
             after == IF e.cb = "requeue" THEN queueSpawn(logged, "spawn", f)
                      ELSE logged
         IN  runCallbacks(after, toRun, i + 1, f)

\* flush(), running in frame f (0: called directly or by a timer)
flush(st, f) ==
    runCallbacks([st EXCEPT !.queue = <<>>, !.scheduled = FALSE,
                            !.flushes = st.flushes + 1],
                 st.queue, 1, f)

SetQueue(st) ==
    /\ scheduled' = st.scheduled
    /\ queue' = st.queue
    /\ rafs' = st.rafs
    /\ timeouts' = st.timeouts
    /\ flushes' = st.flushes
    /\ ran' = st.ran
    /\ pushed' = st.pushed

QueueOthers ==
    UNCHANGED <<hookVars, cacheVars, suggestVars, admitVars, runnerVars,
                panelVars, positionVars, shapeVars, modelVars, pureVars,
                notifVars, calls, lastOp, cleanupRan>>

\* queueSpawn(cb) called from outside a flush: by a handler, a timer, or a
\* frame callback other than flush
QueueSpawn(cb) ==
    /\ Len(ran) + Len(queue) < MaxSpawns
    /\ SetQueue(queueSpawn(QueueState, cb, 0))
    /\ UNCHANGED <<hasWindow, frame, frameRafs>>
    /\ QueueOthers

\* the browser begins an animation frame: the flush requests made so far
\* are its callbacks
BeginFrame ==
    /\ frameRafs = 0
    /\ rafs > 0
    /\ frame' = frame + 1
    /\ frameRafs' = rafs
    /\ rafs' = 0
    /\ UNCHANGED <<scheduled, queue, hasWindow, timeouts, flushes, ran, pushed>>
    /\ QueueOthers

\* the running frame calls its next flush callback
FrameFlush ==
    /\ frameRafs > 0
    /\ frameRafs' = frameRafs - 1
    /\ SetQueue(flush(QueueState, frame))
    /\ UNCHANGED <<hasWindow, frame>>
    /\ QueueOthers

\* a setTimeout(flush, 0) timer expires
TimeoutFlush ==
    /\ timeouts > 0
    /\ SetQueue(flush([QueueState EXCEPT !.timeouts = timeouts - 1], 0))
    /\ UNCHANGED <<hasWindow, frame, frameRafs>>
    /\ QueueOthers

\* flush() called directly by an importer of the module
DirectFlush ==
    /\ frame + flushes < MaxFrames
    /\ SetQueue(flush(QueueState, 0))
    /\ UNCHANGED <<hasWindow, frame, frameRafs>>
    /\ QueueOthers

\* ... within the frames the model follows
AnimationFrame ==
    /\ frame + flushes < MaxFrames
    /\ BeginFrame

\* spawnQueue.ts loaded with or without a window
QueueSpecInit ==
    /\ HookInit /\ CacheInit /\ SuggestIdle
    /\ AdmitIdle /\ RunnerInit /\ PanelInit /\ QueueLoaded /\ PositionIdle
    /\ ShapeIdle /\ ModelIdle /\ PureIdle /\ NotifIdle

NextQueue ==
    \/ \E cb \in SpawnCallbacks : QueueSpawn(cb)
    \/ AnimationFrame
    \/ FrameFlush
    \/ TimeoutFlush
    \/ DirectFlush

SpecQueue == QueueSpecInit /\ [][NextQueue]_vars

\* the number of queueSpawn calls made from outside a flush: every
\* "requeue" callback that ran has made one of the others
QueuedByCallers ==
    pushed - Cardinality({a \in 1..Len(ran) : ran[a].cb = "requeue"})

\* the queue with the browser running every requested animation frame and
\* every callback of a frame, and the timers expiring: callers queue
\* callbacks while fewer than MaxQueued were queued, flush() is called
\* directly within the first MaxFrames flushes and frames
NextQueueLive ==
    \/ \E cb \in SpawnCallbacks : QueuedByCallers < MaxQueued /\ QueueSpawn(cb)
    \/ BeginFrame
    \/ FrameFlush
    \/ TimeoutFlush
    \/ DirectFlush

SpecQueueLive ==
    /\ QueueSpecInit
    /\ [][NextQueueLive]_vars
    /\ WF_vars(BeginFrame)
    /\ WF_vars(FrameFlush)
    /\ WF_vars(TimeoutFlush)

(***************************************************************************)
(* DebugLogger.validatePosition and the physics components' use of it      *)
(***************************************************************************)
\* the values that occur as array items: numbers finite and not, a string,
\* null
JsItems ==
    {Num("5"), Num("-4"), Num("NaN"), Num("Infinity"), Num("-Infinity"),
     [typeof |-> "string", val |-> "5"], [typeof |-> "object", val |-> "null"]}

\* the values handed over as a position: null, a non-array object, arrays
JsPositions ==
    {JsNull, [isArray |-> FALSE, truthy |-> TRUE, items |-> <<>>]}
    \cup {JsArray(items) : items \in UNION {[1..n -> JsItems] : n \in 0..MaxCoords}}

\* isNaN(x) for x of type number
isNaN(x) == x.val = "NaN"

\* validatePosition(position, context); the result null is JsNull
validatePosition(position) ==
    IF ~position.truthy THEN JsNull
    ELSE IF ~position.isArray THEN JsNull
    ELSE IF Len(position.items) # 3 THEN JsNull
    ELSE IF \E i \in 1..3 : \/ position.items[i].typeof # "number"
                            \/ isNaN(position.items[i])
    THEN JsNull
    ELSE position

\* the fallback position of the components and of generateRandomPosition
SafeDefault == <<Num("0"), Num("5"), Num("0")>>

\* PhysicsBox / GLBModel validatedProps: validPosition || [0, 5, 0], which
\* the rigid-body config factory then uses as config.position
safePosition(position) ==
    LET validPosition == validatePosition(position)
    IN  IF validPosition = JsNull THEN SafeDefault ELSE validPosition.items

PositionInit ==
    /\ HookInit
    /\ CacheInit
    /\ SuggestIdle
    /\ AdmitIdle
    /\ RunnerInit
    /\ PanelInit
    /\ QueueInit
    /\ vpPosition \in JsPositions
    /\ vpConfig = <<>>
    /\ vpDone = FALSE
    /\ ShapeIdle
    /\ ModelIdle
    /\ PureIdle
    /\ NotifIdle

\* a physics component is rendered with vpPosition as its position prop
ValidateProps ==
    /\ ~vpDone
    /\ vpConfig' = safePosition(vpPosition)
    /\ vpDone' = TRUE
    /\ UNCHANGED vpPosition
    /\ UNCHANGED <<hookVars, cacheVars, suggestVars, admitVars, runnerVars,
                   panelVars, queueVars, shapeVars, modelVars, pureVars, notifVars, calls, lastOp, cleanupRan>>

SpecPosition == PositionInit /\ [][ValidateProps]_vars

(***************************************************************************)
(* GLB collision shapes (utils/glbPhysics)                                 *)
(***************************************************************************)
Max(a, b) == IF a >= b THEN a ELSE b

\* calculateGLBDimensions: Math.max(size * scale[i], 0.1) per axis
\* calculateGLBDimensions with the scale left out
calculateGLBDimensions_noScale(scene, scale) ==
    [i \in 1..3 |-> Fin(Max(scene.size[i], 100))]

calculateGLBDimensions(scene, scale) ==
    [i \in 1..3 |-> Fin(Max((scene.size[i] * scale[i]) \div 1000, 100))]

\* extractVerticesFromGLB: three coordinates per vertex; the coordinates of
\* a hierarchy are not kept by the model, the array holds their positions
extractVerticesFromGLB(scene) == [i \in 1..(3 * scene.vertexCount) |-> i]

\* simplifyVertices with the step rounded down instead of up
simplifyVertices_floorStep(vertices, maxVertices) ==
    IF Len(vertices) <= 3 * maxVertices THEN vertices
    ELSE LET step == Len(vertices) \div (3 * maxVertices)
             taken == Cardinality({k \in 0..Len(vertices) :
                                      k * step * 3 + 2 < Len(vertices)})
         IN  [j \in 1..(3 * taken) |->
                 vertices[((j - 1) \div 3) * step * 3 + ((j - 1) % 3) + 1]]

\* simplifyVertices(vertices, maxVertices): vertices.length / 3 <= maxVertices
\* is the test on the real quotient, step is Math.ceil of the real quotient,
\* and the loop takes the triple at 0, 3 * step, 6 * step, ... while the
\* whole triple lies inside the array
simplifyVertices(vertices, maxVertices) ==
    IF Len(vertices) <= 3 * maxVertices THEN vertices
    ELSE LET step == (Len(vertices) + 3 * maxVertices - 1) \div (3 * maxVertices)
             taken == Cardinality({k \in 0..Len(vertices) :
                                      k * step * 3 + 2 < Len(vertices)})
         IN  [j \in 1..(3 * taken) |->
                 vertices[((j - 1) \div 3) * step * 3 + ((j - 1) % 3) + 1]]

\* validateCollisionShape with the convex test accepting any vertex array
validateCollisionShape_anyVertices(shapeData) ==
    IF shapeData.shapeType = "box"
    THEN /\ shapeData.dimensions.defined
         /\ \A i \in 1..Len(shapeData.dimensions.items) :
                LET d == shapeData.dimensions.items[i]
                IN  d.kind = "finite" /\ d.milli > 0
    ELSE IF shapeData.shapeType = "convex"
    THEN shapeData.vertices.defined
    ELSE FALSE

\* validateCollisionShape
validateCollisionShape(shapeData) ==
    IF shapeData.shapeType = "box"
    THEN /\ shapeData.dimensions.defined
         /\ \A i \in 1..Len(shapeData.dimensions.items) :
                LET d == shapeData.dimensions.items[i]
                IN  /\ (d.kind = "Infinity" \/ (d.kind = "finite" /\ d.milli > 0))
                    /\ d.kind = "finite"
    ELSE IF shapeData.shapeType = "convex"
    THEN /\ shapeData.vertices.defined
         /\ Len(shapeData.vertices.items) >= 12
         /\ Len(shapeData.vertices.items) % 3 = 0
    ELSE FALSE

\* createCollisionShapeFromGLB; an exception of the traversal is caught and
\* null returned
createCollisionShapeFromGLB(scene, collisionType, scale) ==
    IF scene.throws THEN NullShape
    ELSE IF collisionType = "box"
    THEN BoxShape(calculateGLBDimensions(scene, scale))
    ELSE IF collisionType = "convex"
    THEN LET vertices == extractVerticesFromGLB(scene)
         IN  IF Len(vertices) = 0
             THEN BoxShape(calculateGLBDimensions(scene, scale))
             ELSE ConvexShape(simplifyVertices(vertices, 50))
    ELSE NullShape

\* the hierarchies, kinds and scales the function is applied to
VertexCounts == (0..MaxVerts) \cup {50, 51, 120}
SceneSizes == {50, 1000, 2000}
Scenes ==
    {EmptyScene}
    \cup {[vertexCount |-> 1, size |-> <<0, 0, 0>>, throws |-> t] : t \in BOOLEAN}
    \cup {[vertexCount |-> n, size |-> <<z, z, z>>, throws |-> t] :
             n \in VertexCounts \ {0, 1}, z \in SceneSizes, t \in BOOLEAN}
CollisionTypes == {"box", "convex"}
ScaleValues == {100, 1000, 100000}
Scales == {<<x, y, y>> : x \in ScaleValues, y \in ScaleValues}

ShapeInit ==
    /\ HookInit
    /\ CacheInit
    /\ SuggestIdle
    /\ AdmitIdle
    /\ RunnerInit
    /\ PanelInit
    /\ QueueInit
    /\ PositionIdle
    /\ csScene \in Scenes
    /\ csKind \in CollisionTypes
    /\ csScale \in Scales
    /\ csResult = NullShape
    /\ csDone = FALSE
    /\ ModelIdle
    /\ PureIdle
    /\ NotifIdle

\* one createCollisionShapeFromGLB(csScene, csKind, csScale) call
CreateCollisionShape ==
    /\ ~csDone
    /\ csResult' = createCollisionShapeFromGLB(csScene, csKind, csScale)
    /\ csDone' = TRUE
    /\ UNCHANGED <<csScene, csKind, csScale>>
    /\ UNCHANGED <<hookVars, cacheVars, suggestVars, admitVars, runnerVars,
                   panelVars, queueVars, positionVars, modelVars, pureVars, notifVars, calls, lastOp,
                   cleanupRan>>

SpecShape == ShapeInit /\ [][CreateCollisionShape]_vars

(***************************************************************************)
(* GLBModel.collisionData (PhysicsGLB.tsx)                                 *)
(***************************************************************************)
\* the fallback box: halfExtents 0.5, 0.5, 0.5
UnitBox == [shapeType |-> "BOX", halfExtents |-> <<Fin(500), Fin(500), Fin(500)>>]

\* the useMemo body: outcome.throws says createCollisionShapeFromGLB threw,
\* outcome.result is what it returned otherwise
collisionData(outcome) ==
    IF outcome.throws THEN UnitBox
    ELSE LET shapeData == outcome.result
         IN  IF shapeData = NullShape \/ ~validateCollisionShape(shapeData)
             THEN UnitBox
             ELSE IF shapeData.shapeType = "convex"
             THEN [shapeType |-> "HULL", halfExtents |-> <<>>]
             ELSE IF shapeData.shapeType = "box" /\ shapeData.dimensions.defined
             THEN [shapeType |-> "BOX",
                   halfExtents |-> [i \in 1..3 |->
                       Fin(shapeData.dimensions.items[i].milli \div 2)]]
             ELSE UnitBox

\* what shape derivation hands to GLBModel: descriptors good and bad, null
DimValues == {Fin(-1000), Fin(0), Fin(100), Fin(1000), NaN, Infinity}
Descriptors ==
    {BoxShape(<<x, y, z>>) : x \in DimValues, y \in DimValues, z \in DimValues}
    \cup {ConvexShape([i \in 1..n |-> 0]) : n \in 0..MaxFloats}
    \cup {[shapeType |-> "box", dimensions |-> NoDimensions, vertices |-> NoVertices],
          [shapeType |-> "convex", dimensions |-> NoDimensions, vertices |-> NoVertices]}
Outcomes ==
    {[throws |-> TRUE, result |-> NullShape], [throws |-> FALSE, result |-> NullShape]}
    \cup {[throws |-> FALSE, result |-> d] : d \in Descriptors}

GLBModelInit ==
    /\ HookInit
    /\ CacheInit
    /\ SuggestIdle
    /\ AdmitIdle
    /\ RunnerInit
    /\ PanelInit
    /\ QueueInit
    /\ PositionIdle
    /\ ShapeIdle
    /\ gmOutcome \in Outcomes
    /\ gmConfig = NoConfig
    /\ gmDone = FALSE
    /\ PureIdle
    /\ NotifIdle

\* GLBModel renders with a loaded scene and computes collisionData
ComputeCollisionData ==
    /\ ~gmDone
    /\ gmConfig' = collisionData(gmOutcome)
    /\ gmDone' = TRUE
    /\ UNCHANGED gmOutcome
    /\ UNCHANGED <<hookVars, cacheVars, suggestVars, admitVars, runnerVars,
                   panelVars, queueVars, positionVars, shapeVars, pureVars, notifVars, calls,
                   lastOp, cleanupRan>>

SpecGLBModel == GLBModelInit /\ [][ComputeCollisionData]_vars

(***************************************************************************)
(* Pure functions applied to inputs drawn from bounded sets                *)
(***************************************************************************)
\* every component other than the function called, as constructed
OthersIdle ==
    /\ HookInit
    /\ CacheInit
    /\ SuggestIdle
    /\ AdmitIdle /\ RunnerInit /\ PanelInit /\ QueueInit /\ PositionIdle
    /\ ShapeIdle /\ ModelIdle /\ NotifIdle

\* a call returns: only its result is new
Returned ==
    /\ pfDone' = TRUE
    /\ UNCHANGED pfCall
    /\ UNCHANGED <<hookVars, cacheVars, suggestVars, admitVars, runnerVars,
                   panelVars, queueVars, positionVars, shapeVars, modelVars,
                   notifVars, calls, lastOp, cleanupRan>>

\* simplifyVertices(vertices, maxVertices) on arrays of 0..3 * MaxPoints
\* coordinates; coordinate i of the array is the number i
SimplifyCalls ==
    {[fn |-> "simplifyVertices", vertices |-> [i \in 1..n |-> i], maxVertices |-> m] :
        n \in 0..(3 * MaxPoints), m \in 1..MaxCap}

SimplifyInit ==
    /\ OthersIdle
    /\ pfCall \in SimplifyCalls
    /\ pfResult = <<>>
    /\ pfDone = FALSE

\* simplifyVertices(v, m), and simplifyVertices applied to its result
SimplifyVertices ==
    /\ ~pfDone
    /\ pfCall.fn = "simplifyVertices"
    /\ LET once == simplifyVertices(pfCall.vertices, pfCall.maxVertices)
       IN  pfResult' = <<once, simplifyVertices(once, pfCall.maxVertices)>>
    /\ Returned

SpecSimplify == SimplifyInit /\ [][SimplifyVertices]_vars

\* calculateGLBDimensions(scene, scale): bounding boxes with extents of
\* 0, 0.01, 0.05, 1 and 2 per axis, scale components 0.5, 1 and 3
AxisSizes == {0, 10, 50, 1000, 2000}
AxisScales == {500, 1000, 3000}
DimensionCalls ==
    {[fn |-> "calculateGLBDimensions",
      scene |-> [vertexCount |-> 4, size |-> <<x, y, z>>, throws |-> FALSE],
      scale |-> <<a, b, c>>] :
        x \in AxisSizes, y \in AxisSizes, z \in AxisSizes,
        a \in AxisScales, b \in AxisScales, c \in AxisScales}

DimensionsInit ==
    /\ OthersIdle
    /\ pfCall \in DimensionCalls
    /\ pfResult = <<>>
    /\ pfDone = FALSE

\* calculateGLBDimensions(scene, scale) and calculateGLBDimensions(scene, 2 * scale)
CalculateGLBDimensions ==
    /\ ~pfDone
    /\ pfCall.fn = "calculateGLBDimensions"
    /\ pfResult' = <<calculateGLBDimensions(pfCall.scene, pfCall.scale),
                     calculateGLBDimensions(pfCall.scene,
                                            [i \in 1..3 |-> 2 * pfCall.scale[i]])>>
    /\ Returned

SpecDimensions == DimensionsInit /\ [][CalculateGLBDimensions]_vars

(***************************************************************************)
(* PhysicsGLB: validated props and the rigid-body config                   *)
(***************************************************************************)
Undefined == [kind |-> "undefined", milli |-> 0]

\* the mass prop: absent, negative, 0, 0.5, 1, 2, NaN, Infinity
MassValues ==
    {Undefined, Fin(-1000), Fin(0), Fin(500), Fin(1000), Fin(2000), NaN, Infinity}

\* mass > 0 in JavaScript
positiveMass(mass) ==
    \/ mass.kind = "Infinity"
    \/ mass.kind = "finite" /\ mass.milli > 0

\* GLBModel's parameter default (mass = 1) and validatedProps.mass
safeMass(mass) ==
    LET given == IF mass = Undefined THEN Fin(1000) ELSE mass
    IN  IF given.kind # "NaN" /\ positiveMass(given) THEN given ELSE Fin(1000)

validatedProps(position, mass) ==
    [position |-> safePosition(position), mass |-> safeMass(mass)]

\* GLBInstance.configFactory; latestCollision = NoConfig is the null case
configFactory(latestCollision, latestProps) ==
    IF latestCollision = NoConfig
    THEN [shapeType |-> "BOX",
          bodyType |-> IF positiveMass(latestProps.mass) THEN "DYNAMIC" ELSE "STATIC",
          position |-> latestProps.position,
          mass |-> latestProps.mass,
          halfExtents |-> UnitBox.halfExtents]
    ELSE [shapeType |-> latestCollision.shapeType,
          bodyType |-> IF positiveMass(latestProps.mass) THEN "DYNAMIC" ELSE "STATIC",
          position |-> latestProps.position,
          mass |-> latestProps.mass,
          halfExtents |-> latestCollision.halfExtents]

PhysicsGLBCalls ==
    {[fn |-> "PhysicsGLB", mass |-> m, position |-> p, outcome |-> o] :
        m \in MassValues,
        p \in {JsNull, JsArray(<<Num("0"), Num("0"), Num("0")>>)},
        o \in Outcomes}

PhysicsGLBInit ==
    /\ OthersIdle
    /\ pfCall \in PhysicsGLBCalls
    /\ pfResult = <<>>
    /\ pfDone = FALSE

\* PhysicsGLB renders with a loaded scene: the rigid-body config it hands
\* to useSafeRigidBody
RenderPhysicsGLB ==
    /\ ~pfDone
    /\ pfCall.fn = "PhysicsGLB"
    /\ pfResult' = <<configFactory(collisionData(pfCall.outcome),
                                   validatedProps(pfCall.position, pfCall.mass))>>
    /\ Returned

SpecPhysicsGLB == PhysicsGLBInit /\ [][RenderPhysicsGLB]_vars

(***************************************************************************)
(* validateCollisionShape on descriptors with vertex coordinates           *)
(***************************************************************************)
\* points of a vertex array: three on the x axis and two off it
HullPoints == {<<0, 0, 0>>, <<1, 0, 0>>, <<2, 0, 0>>, <<0, 1, 0>>, <<0, 0, 1>>}

\* the Float32Array of a list of points, followed by extra stray coordinates
FloatArray(points, extra) ==
    [i \in 1..(3 * Len(points)) |-> points[((i - 1) \div 3) + 1][((i - 1) % 3) + 1]]
    \o [i \in 1..extra |-> 0]

ValidateCalls ==
    {[fn |-> "validateCollisionShape", shapeData |-> BoxShape(<<x, y, z>>)] :
        x \in DimValues, y \in DimValues, z \in DimValues}
    \cup {[fn |-> "validateCollisionShape", shapeData |-> ConvexShape(FloatArray(pts, e))] :
             pts \in UNION {[1..n -> HullPoints] : n \in 0..MaxHullPoints}, e \in 0..2}
    \cup {[fn |-> "validateCollisionShape", shapeData |-> d] :
             d \in {[shapeType |-> "box", dimensions |-> NoDimensions, vertices |-> NoVertices],
                    [shapeType |-> "convex", dimensions |-> NoDimensions, vertices |-> NoVertices]}}

ValidateInit ==
    /\ OthersIdle
    /\ pfCall \in ValidateCalls
    /\ pfResult = <<>>
    /\ pfDone = FALSE

\* validateCollisionShape(shapeData)
ValidateCollisionShape ==
    /\ ~pfDone
    /\ pfCall.fn = "validateCollisionShape"
    /\ pfResult' = <<validateCollisionShape(pfCall.shapeData)>>
    /\ Returned

SpecValidate == ValidateInit /\ [][ValidateCollisionShape]_vars

(***************************************************************************)
(* Cache requests whose factory requests the same key again                *)
(***************************************************************************)
\* getMaterial(key, factory) where factory() first calls getMaterial(key,
\* plain) with a plain factory and then returns either a resource of its
\* own (own) or what its request returned.  has(key) is tested before the
\* factory runs, set(key, ...) happens after it.
getMaterialReentrant(cache, key, next, own) ==
    IF key \notin DOMAIN cache
    THEN LET inner == getMaterial(cache, key, next + 1)
             built == IF own THEN next + 2 ELSE inner.result
         IN  [cache |-> [k \in DOMAIN inner.cache \cup {key} |->
                            IF k = key THEN built ELSE inner.cache[k]],
              results |-> {inner.result, built},
              created |-> IF own THEN 2 ELSE 1,
              requests |-> 2]
    ELSE [cache |-> cache, results |-> {cache[key]}, created |-> 0, requests |-> 1]

getGeometryReentrant(cache, key, next, own) ==
    IF key \notin DOMAIN cache
    THEN LET inner == getGeometry(cache, key, next + 1)
             built == IF own THEN next + 2 ELSE inner.result
         IN  [cache |-> [k \in DOMAIN inner.cache \cup {key} |->
                            IF k = key THEN built ELSE inner.cache[k]],
              results |-> {inner.result, built},
              created |-> IF own THEN 2 ELSE 1,
              requests |-> 2]
    ELSE [cache |-> cache, results |-> {cache[key]}, created |-> 0, requests |-> 1]

\* PerformanceOptimizer.getCachedMaterial with such a factory
GetCachedMaterialReentrant(key, own) ==
    /\ calls < MaxCalls
    /\ LET out == getMaterialReentrant(materialCache, key, allocated, own)
       IN  /\ materialCache' = out.cache
           /\ allocated' = allocated + out.created
           /\ made' = [made EXCEPT !["material"][key] = @ + out.created]
           /\ served' = [served EXCEPT !["material"][key] = @ \cup out.results]
           /\ asked' = [asked EXCEPT !["material"][key] = @ + out.requests]
    /\ Called("getCachedMaterial(reentrant)", key, <<>>)
    /\ UNCHANGED <<geometryCache, cleanupCallbacks, cleanupRan>>
    /\ UNCHANGED <<hookVars, suggestVars, extVars>>

\* PerformanceOptimizer.getCachedGeometry with such a factory
GetCachedGeometryReentrant(key, own) ==
    /\ calls < MaxCalls
    /\ LET out == getGeometryReentrant(geometryCache, key, allocated, own)
       IN  /\ geometryCache' = out.cache
           /\ allocated' = allocated + out.created
           /\ made' = [made EXCEPT !["geometry"][key] = @ + out.created]
           /\ served' = [served EXCEPT !["geometry"][key] = @ \cup out.results]
           /\ asked' = [asked EXCEPT !["geometry"][key] = @ + out.requests]
    /\ Called("getCachedGeometry(reentrant)", key, <<>>)
    /\ UNCHANGED <<materialCache, cleanupCallbacks, cleanupRan>>
    /\ UNCHANGED <<hookVars, suggestVars, extVars>>

NextReentrant ==
    \/ \E key \in CacheKeys : GetCachedMaterial(key)
    \/ \E key \in CacheKeys : GetCachedGeometry(key)
    \/ \E key \in CacheKeys : \E own \in BOOLEAN : GetCachedMaterialReentrant(key, own)
    \/ \E key \in CacheKeys : \E own \in BOOLEAN : GetCachedGeometryReentrant(key, own)
    \/ DisposeAll

SpecReentrant == Init /\ [][NextReentrant]_vars

(***************************************************************************)
(* SpecEviction: the hook with a store of 43..45 entities, every addObject *)
(* and removeObject call made after the previous updates were rendered.    *)
(***************************************************************************)
\* a store of b balls, x boxes and g models, spawned one per millisecond
\* before time 0
Populated(b, x, g) ==
    [i \in 1..(b + x + g) |->
        LET type == IF i <= b THEN BALL ELSE IF i <= b + x THEN BOX ELSE GLB_MODEL
        IN  [id |-> <<type, i - MAX_OBJECTS, i>>, type |-> type,
             timestamp |-> i - MAX_OBJECTS]]

PopulatedStores ==
    {Populated(b, x, g) : <<b, x, g>> \in
        {t \in {20, MAX_BALLS} \X {20, MAX_BOXES} \X {0, 3, 4, 5} :
            /\ t[1] + t[2] + t[3] >= CLEANUP_THRESHOLD - 2
            /\ t[1] + t[2] + t[3] <= CLEANUP_THRESHOLD}}

EvictionInit ==
    /\ objects \in PopulatedStores
    /\ pendingObjects = <<>>
    /\ isRunning = TRUE
    /\ pendingRunning = <<>>
    /\ resetKey = 0
    /\ pendingResetKey = 0
    /\ performanceWarnings = <<>>
    /\ pendingWarnings = <<>>
    /\ timers = <<>>
    /\ now = 0
    /\ created = MAX_OBJECTS
    /\ mounted = TRUE
    /\ calls = 0
    /\ lastOp = [op |-> "init", type |-> "", results |-> <<>>, prev |-> "",
                 before |-> Len(objects), stale |-> FALSE]
    /\ cleanupRan = {}
    /\ CacheInit
    /\ SuggestIdle
    /\ ExtIdle

\* no update is waiting for a render: the callbacks are those of the store
\* as it is
Rendered == pendingObjects = <<>>

\* single addObject calls and removals of the oldest rendered entity, made
\* with or without a render in between
NextEviction ==
    \/ \E type \in ObjectTypeValues : AddObjects(type, 1, created + 1)
    \/ objects # <<>> /\ RemoveObject(objects[1].id)
    \/ Render
    \/ Tick

SpecEviction == EvictionInit /\ [][NextEviction]_vars


(***************************************************************************)
(* Claims about PerformanceTestRunner (SpecRunner)                         *)
(***************************************************************************)
\* C13: a runner never has two runTest invocations in progress at once,
\* whatever calls (stopTest included) were made in between.
C13_OneRunAtATime ==
    Cardinality({i \in Runs : InProgress(i)}) <= 1

\* C14: once stopTest() has been called during a run, that run makes no
\* further addObjects call, whatever is called on the runner afterwards.
C14_NoSpawnAfterStop ==
    \A i \in Runs : runs[i].stopped => runs[i].addsAfterStop = 0

\* C15: a run during which stopTest() was called completes normally: its
\* promise resolves with a summary and does not reject.
C15_StoppedRunResolves ==
    \A i \in Runs : runs[i].stopped => runs[i].pc # "rejected"

(***************************************************************************)
(* Claims about ControlPanel (SpecPanel)                                   *)
(***************************************************************************)
\* C16: no spawn callback (onAddBall, onAddBox, onLoadGLB) fires while
\* isRunning is false, also not for a GLB file that was chosen before the
\* simulation was paused or reset.
C16_NoSpawnWhilePaused == pausedSpawns = {}

(***************************************************************************)
(* Claims about the spawn queue (SpecQueue)                                *)
(***************************************************************************)
\* C17: at most one flush is pending at any time; the callbacks run in one
\* animation frame are all run by one flush; and a callback queued while a
\* frame's flush is running is run in a later frame.
C17_OneBatchPerFrame ==
    /\ rafs + frameRafs + timeouts <= 1
    /\ \A a \in 1..Len(ran) : \A b \in 1..Len(ran) :
           (ran[a].frame # 0 /\ ran[a].frame = ran[b].frame)
               => ran[a].flush = ran[b].flush
    /\ \A a \in 1..Len(ran) :
           (ran[a].queuedIn # 0 /\ ran[a].frame # 0)
               => ran[a].frame > ran[a].queuedIn

(***************************************************************************)
(* Claims about positions (SpecPosition)                                   *)
(***************************************************************************)
\* C18: the position handed to a rigid-body config is an array of exactly
\* three finite numbers, whatever was supplied as the position.
C18_FinitePosition ==
    vpDone =>
        /\ Len(vpConfig) = 3
        /\ \A i \in 1..3 :
               /\ vpConfig[i].typeof = "number"
               /\ vpConfig[i].val \notin {"NaN", "Infinity", "-Infinity"}

(***************************************************************************)
(* Claims about collision shapes (SpecShape)                               *)
(***************************************************************************)
\* C20: a non-null result of createCollisionShapeFromGLB satisfies
\* validateCollisionShape, for every hierarchy, kind and scale; a hierarchy
\* without vertices and kind convex yields a box descriptor.
C20_OnlyValidDescriptors ==
    csDone =>
        /\ csResult # NullShape => validateCollisionShape(csResult)
        /\ (csScene.vertexCount = 0 /\ ~csScene.throws /\ csKind = "convex")
               => csResult.shapeType = "box"

(***************************************************************************)
(* Claims about GLBModel (SpecGLBModel)                                    *)
(***************************************************************************)
\* a descriptor the physics engine can take: a box of three positive finite
\* dimensions, or a convex shape of at least 4 whole vertices
GoodDescriptor(d) ==
    \/ /\ d.shapeType = "box"
       /\ d.dimensions.defined
       /\ \A i \in 1..3 : d.dimensions.items[i] \in {Fin(100), Fin(1000)}
    \/ /\ d.shapeType = "convex"
       /\ d.vertices.defined
       /\ \E v \in 4..(MaxFloats + 1) : Len(d.vertices.items) = 3 * v

\* C19: for every outcome of shape derivation GLBModel produces a collision
\* config; when derivation threw, returned null or returned a descriptor
\* that is not valid, the config is the unit box (half-extents 0.5).
C19_FallbackToUnitBox ==
    gmDone =>
        /\ gmConfig # NoConfig
        /\ gmConfig.shapeType \in {"BOX", "HULL"}
        /\ ( \/ gmOutcome.throws
             \/ gmOutcome.result = NullShape
             \/ ~GoodDescriptor(gmOutcome.result) ) => gmConfig = UnitBox
        /\ ( /\ ~gmOutcome.throws
             /\ GoodDescriptor(gmOutcome.result)
             /\ gmOutcome.result.shapeType = "box" )
               => gmConfig = [shapeType |-> "BOX",
                              halfExtents |-> [i \in 1..3 |->
                                  Fin(gmOutcome.result.dimensions.items[i].milli \div 2)]]
        /\ ( /\ ~gmOutcome.throws
             /\ GoodDescriptor(gmOutcome.result)
             /\ gmOutcome.result.shapeType = "convex" )
               => gmConfig.shapeType = "HULL"

\* C19 witness: a convex descriptor of three vertices, which fails
\* validation, ends as the unit box
C19_Witness ==
    /\ gmDone
    /\ gmOutcome.result.shapeType = "convex"
    /\ Len(gmOutcome.result.vertices.items) = 9
    /\ gmConfig = UnitBox

(***************************************************************************)
(* Claims about simplifyVertices (SpecSimplify)                            *)
(***************************************************************************)
\* C21: for a point cloud v of n whole points and maxPoints >= 1,
\* simplifyVertices(v, maxPoints) is v when n <= maxPoints, and otherwise the
\* triples of v at points 0, N, 2N, ... with N = ceil(n / maxPoints), at most
\* maxPoints of them; simplifying the result again changes nothing.
C21_UniformDecimation ==
    (pfDone /\ pfCall.fn = "simplifyVertices" /\ Len(pfCall.vertices) % 3 = 0) =>
        LET v == pfCall.vertices
            m == pfCall.maxVertices
            n == Len(v) \div 3
            r == pfResult[1]
            kept == Len(r) \div 3
        IN  /\ n <= m => r = v
            /\ n > m =>
                 LET N == CHOOSE x \in 1..n : x * m >= n /\ (x - 1) * m < n
                 IN  /\ Len(r) % 3 = 0
                     /\ kept <= m
                     /\ (kept - 1) * N < n /\ n <= kept * N
                     /\ \A q \in 0..(kept - 1) : \A c \in 1..3 :
                            r[3 * q + c] = v[3 * q * N + c]
            /\ pfResult[2] = r

\* C21 witness: a cloud of more points than the cap, cut down
C21_Witness ==
    /\ pfDone
    /\ pfCall.fn = "simplifyVertices"
    /\ Len(pfCall.vertices) = 15
    /\ pfCall.maxVertices = 3
    /\ Len(pfResult[1]) = 9

(***************************************************************************)
(* Claims about calculateGLBDimensions (SpecDimensions)                    *)
(***************************************************************************)
\* C22 as stated: for every hierarchy and positive scale, doubling every
\* scale component doubles every dimension calculateGLBDimensions returns.
C22_DoublingDoubles ==
    (pfDone /\ pfCall.fn = "calculateGLBDimensions") =>
        \A i \in 1..3 : pfResult[2][i].milli = 2 * pfResult[1][i].milli

\* C22 amended: every dimension is at least the minimum 0.1; doubling every
\* scale component doubles every dimension that is above the minimum, and
\* a dimension at the minimum grows to at most twice its value.
C22_DoublingAboveMinimum ==
    (pfDone /\ pfCall.fn = "calculateGLBDimensions") =>
        \A i \in 1..3 :
            /\ pfResult[1][i].kind = "finite" /\ pfResult[2][i].kind = "finite"
            /\ pfResult[1][i].milli >= 100
            /\ pfResult[1][i].milli > 100 =>
                   pfResult[2][i].milli = 2 * pfResult[1][i].milli
            /\ pfResult[2][i].milli >= pfResult[1][i].milli
            /\ pfResult[2][i].milli <= 2 * pfResult[1][i].milli

\* C22 witness: one axis held at the minimum, another doubled
C22_Witness ==
    /\ pfDone
    /\ pfCall.fn = "calculateGLBDimensions"
    /\ pfCall.scene.size = <<10, 1000, 2000>>
    /\ pfCall.scale = <<1000, 1000, 3000>>
    /\ pfResult[1] = <<Fin(100), Fin(1000), Fin(6000)>>
    /\ pfResult[2] = <<Fin(100), Fin(2000), Fin(12000)>>

(***************************************************************************)
(* Claims about PhysicsGLB (SpecPhysicsGLB)                                *)
(***************************************************************************)
\* C23: PhysicsGLB gives its rigid body the STATIC body type and mass 0 when
\* the mass prop is 0, and the DYNAMIC body type when the mass prop is
\* greater than 0.
C23_StaticWhenMassZero ==
    (pfDone /\ pfCall.fn = "PhysicsGLB") =>
        /\ pfCall.mass = Fin(0) =>
              pfResult[1].bodyType = "STATIC" /\ pfResult[1].mass = Fin(0)
        /\ (pfCall.mass # Undefined /\ positiveMass(pfCall.mass)) =>
              pfResult[1].bodyType = "DYNAMIC"

(***************************************************************************)
(* Claims about validateCollisionShape (SpecValidate)                      *)
(***************************************************************************)
\* point q (from 0) of a flat coordinate array
PointOf(items, q) == <<items[3 * q + 1], items[3 * q + 2], items[3 * q + 3]>>

\* the cross product of b - a and c - a is zero: a, b, c lie on one line
OnOneLine(a, b, c) ==
    LET u == [i \in 1..3 |-> b[i] - a[i]]
        w == [i \in 1..3 |-> c[i] - a[i]]
    IN  /\ u[2] * w[3] - u[3] * w[2] = 0
        /\ u[3] * w[1] - u[1] * w[3] = 0
        /\ u[1] * w[2] - u[2] * w[1] = 0

AllCollinear(items) ==
    LET n == Len(items) \div 3
    IN  \A i \in 0..(n - 1) : \A j \in 0..(n - 1) : \A k \in 0..(n - 1) :
            OnOneLine(PointOf(items, i), PointOf(items, j), PointOf(items, k))

\* C24: validateCollisionShape accepts a box descriptor exactly when its
\* three dimensions are finite and greater than 0, and a convex descriptor
\* exactly when the array length is divisible by 3 and it holds at least 4
\* points that are not all collinear.
C24_AcceptsExactlyValidShapes ==
    (pfDone /\ pfCall.fn = "validateCollisionShape") =>
        LET d == pfCall.shapeData
        IN  /\ d.shapeType = "box" =>
                 (pfResult[1] <=>
                    /\ d.dimensions.defined
                    /\ Len(d.dimensions.items) = 3
                    /\ \A i \in 1..3 : /\ d.dimensions.items[i].kind = "finite"
                                       /\ d.dimensions.items[i].milli > 0)
            /\ d.shapeType = "convex" =>
                 (pfResult[1] <=>
                    /\ d.vertices.defined
                    /\ Len(d.vertices.items) % 3 = 0
                    /\ Len(d.vertices.items) \div 3 >= 4
                    /\ ~AllCollinear(d.vertices.items))

(***************************************************************************)
(* Claims about re-entrant cache requests (SpecReentrant)                  *)
(***************************************************************************)
\* C25: when the factory passed to getCachedMaterial / getCachedGeometry for
\* a key requests that key again before it returns, one resource is created
\* for the key and every request for the key returns that same resource.
C25_ReentrantCreatesOnce ==
    \A c \in CacheNames : \A k \in CacheKeys :
        (/\ lastOp.op \in {"getCachedMaterial(reentrant)", "getCachedGeometry(reentrant)"}
         /\ lastOp.type = k
         /\ asked[c][k] >= 1) =>
            /\ made[c][k] = 1
            /\ Cardinality(served[c][k]) = 1

(***************************************************************************)
(* Claims about proactive eviction (SpecEviction)                          *)
(***************************************************************************)
\* the last operation was an addObject call that returned an id
Admitted == lastOp.op = "addObject" /\ lastOp.results[1] # NullId

\* every addObject call so far was made on a rendered store
OneCallPerRender == ~lastOp.stale

\* C26: as long as every addObject call observes the store left by the
\* previous operation (one call per render), the store holds at most
\* CLEANUP_THRESHOLD = 45 entities and never reaches MAX_OBJECTS; an
\* admission made at 45 or more entities removes the 3 oldest entities and
\* appends the new one; a refused call was refused by its category ceiling,
\* never by the global one.
C26_EvictionKeepsBelowThreshold ==
    OneCallPerRender =>
    LET next == StoreAfterRender
    IN  /\ Len(objects) <= CLEANUP_THRESHOLD
        /\ Len(next) <= CLEANUP_THRESHOLD
        /\ Len(objects) < MAX_OBJECTS
        /\ (Admitted /\ lastOp.before >= CLEANUP_THRESHOLD) =>
              /\ Len(next) = lastOp.before - 3 + 1
              /\ next[Len(next)].id = lastOp.results[1]
              /\ ~Rendered =>
                    LET left == {next[j].id : j \in 1..Len(next)}
                        gone == {i \in 1..Len(objects) : objects[i].id \notin left}
                    IN  /\ Cardinality(gone) = 3
                        /\ \A i \in gone : \A j \in (1..Len(objects)) \ gone :
                               objects[i].timestamp <= objects[j].timestamp
        /\ (lastOp.op = "addObject" /\ lastOp.results[1] = NullId) =>
              /\ lastOp.before < MAX_OBJECTS
              /\ CountType(objects, lastOp.type) >= typeLimitOf(lastOp.type)

\* C26 witness: an entity admitted at 45 entities, the update rendered
C26_Witness ==
    /\ OneCallPerRender
    /\ Admitted
    /\ lastOp.before = CLEANUP_THRESHOLD
    /\ Rendered
    /\ Len(objects) = CLEANUP_THRESHOLD - 2

(***************************************************************************)
(* Claims about the spawn queue with frames that always come               *)
(* (SpecQueueLive)                                                         *)
(***************************************************************************)
\* the callback of the n-th queueSpawn call has been executed
HasRun(n) == \E a \in 1..Len(ran) : ran[a].seq = n

\* the callbacks executed so far were executed in the order of their
\* queueSpawn calls, none of them twice
RanInOrder ==
    \A a \in 1..Len(ran) : \A b \in 1..Len(ran) : a < b => ran[a].seq < ran[b].seq

\* C27: every callback passed to queueSpawn is eventually executed, exactly
\* once and in the order of the queueSpawn calls; a callback that throws
\* neither keeps later callbacks from running nor leaves the queue stuck.
\* Stated as: again and again, every callback queued so far has been
\* executed and the executions so far were in order without repetition.
\* The log of executions only grows, so each callback is executed at some
\* time after it was queued, and the order holds at every time.
C27_EveryCallbackRunsOnce ==
    []<>(RanInOrder /\ \A n \in 1..pushed : HasRun(n))

\* C27 witness: a callback threw and the callback queued after it was run by
\* the same flush
C27_Witness ==
    \E a \in 1..Len(ran) : \E b \in 1..Len(ran) :
        /\ ran[a].cb = "throw"
        /\ ran[b].seq = ran[a].seq + 1
        /\ ran[b].flush = ran[a].flush
        /\ ran[b].frame # 0

(***************************************************************************)
(* Claims about the end of a test run (SpecRunner)                         *)
(***************************************************************************)
\* the promise of invocation i settles in this step
Settles(i) ==
    /\ runs[i].pc \notin {"resolved", "rejected"}
    /\ runs'[i].pc \in {"resolved", "rejected"}

\* isTestRunning() is false and getCurrentTestConfig() is null after the step
IdleAfter == ~runnerIsRunning' /\ currentTest' = NoTest

\* invocation i has made at most ceil(maxObjects / stepSize) spawn steps
\* after the step, and is still short of that many finished steps while it
\* is in progress
WithinSteps(i) ==
    runs'[i].pc # "new" /\ runs'[i].config # NoTest =>
        /\ runs'[i].adds <= stepsOf(runs'[i].config)
        /\ runs'[i].pc \in {"clearing", "stabilizing"} =>
               runs'[i].step < stepsOf(runs'[i].config)

\* C28 as stated: every runTest makes at most ceil(maxObjects / stepSize)
\* spawn steps, and when its promise settles, resolved or rejected, the
\* runner is idle: isTestRunning() is false and getCurrentTestConfig() null.
C28_SettledMeansIdle ==
    [][\A i \in Runs : /\ WithinSteps(i)
                       /\ Settles(i) => IdleAfter]_vars

\* C28 amended: every runTest makes at most ceil(maxObjects / stepSize)
\* spawn steps and each resumption of a run in progress finishes a step or
\* settles its promise; when the promise of a run that got past the
\* already-running guard settles, the runner is idle; a runTest call made
\* while a test is running is rejected at once with 'Test is already
\* running' and leaves the runner's fields as they are.
C28_StartedRunEndsIdle ==
    [][\A i \in Runs :
          /\ WithinSteps(i)
          /\ (runs[i].pc = "stabilizing" /\ runs'[i] # runs[i] /\ ~Settles(i)) =>
                 \/ runs'[i].step = runs[i].step + 1
                 \/ runs'[i].stopped /\ ~runs[i].stopped
          /\ (InProgress(i) /\ Settles(i)) => IdleAfter
          /\ (runs[i].pc = "new" /\ Settles(i)) =>
                 /\ runnerIsRunning
                 /\ runs'[i].error = "Test is already running"
                 /\ UNCHANGED <<runnerIsRunning, currentTest, runnerResults>>]_vars

\* C28 witness: a run resolved after ceil(maxObjects / stepSize) spawn steps
\* and the runner is idle
C28_Witness ==
    \E i \in Runs :
        /\ runs[i].pc = "resolved"
        /\ runs[i].adds = stepsOf(runs[i].config)
        /\ runs[i].adds >= 2
        /\ ~runnerIsRunning
        /\ currentTest = NoTest

(***************************************************************************)
(* Claims about the end of a reset (SpecResetLive)                         *)
(***************************************************************************)
\* a resume timer fires in this step
TimerFires == timers # <<>> /\ timers' = Tail(timers)

\* removeAllObjects is called in this step
ResetCalled == calls' = calls + 1 /\ lastOp'.op = "removeAllObjects"

\* C29: every reset ends with the simulation running: the resume timer of
\* every removeAllObjects call eventually fires, and the update it issues
\* leaves isRunning true whatever pause, toggle or reset updates were issued
\* before it; each removeAllObjects call increases resetKey by exactly 1 and
\* nothing else changes it.
C29_ResetEndsRunning ==
    /\ []<>(timers = <<>>)
    /\ [][/\ TimerFires => RunningAfterRender'
          /\ ResetCalled =>
                /\ Len(timers') = Len(timers) + 1
                /\ resetKey' + pendingResetKey' = resetKey + pendingResetKey + 1
          /\ ~ResetCalled =>
                resetKey' + pendingResetKey' = resetKey + pendingResetKey]_vars

\* C29 witness: the simulation was toggled during the grace window of a
\* reset and the timer has fired
C29_Witness ==
    /\ pendingRunning = <<"false", "toggle", "true">>
    /\ timers = <<>>
    /\ pendingResetKey = 1
    /\ RunningAfterRender

(***************************************************************************)
(* Claims about ErrorNotification (SpecNotification)                       *)
(***************************************************************************)
\* C30: dismissing an ErrorNotification, by the close button, the Dismiss
\* button or the auto-hide timer, invokes onDismiss exactly once for that
\* error, for every interleaving of clicks, the auto-hide timer and the
\* 300 ms timers: the timers set while an error was shown call onDismiss
\* once, not twice, and once they have all expired a dismissed error has
\* had its one onDismiss call.
C30_DismissedOnce ==
    \A e \in 1..MaxErrors :
        /\ enDismissals[e] <= 1
        /\ Cardinality({i \in 1..Len(enAnimTimers) : enAnimTimers[i] = e})
               + enDismissals[e] <= 1
====
